---- MODULE Spec2Model ----
(***************************************************************************)
(* Connection Orchestrator of ClawDBot Studio (electron main process):     *)
(* the shared ConnectionState, the single WebSocket session with its       *)
(* reconnect timer, and the remote-first / local-fallback action           *)
(* dispatcher.  Every await of the source is a step boundary: an action    *)
(* is the code that runs between two awaits.                               *)
(***************************************************************************)
EXTENDS Integers, Sequences, FiniteSets, TLC

VARIABLES
  connectionState,      \* the shared ConnectionState record
  configFile,           \* contents of studio-config.json as readConfig() returns it
  wsClient,             \* id of the session wsClient refers to, NoSession when null
  sessions,             \* every WebSocket object created so far, with its handlers' state
  wsReconnectTimer,     \* the handle kept in wsReconnectTimer, NoTimer when null
  timers,               \* the reconnect timers that are pending in the event loop
  manualWsDisconnect,   \* the manual-disconnect flag
  staleDispatch,        \* monitor: a listener ran for a session that is not wsClient
  operatorDisconnected, \* monitor: disconnect() ran and no explicit connect() since
  runtimeState,         \* the cached Snapshot
  act,                  \* the performBotAction call in flight
  actionsDone,          \* number of performBotAction calls started
  clock,                \* Date.now(), in milliseconds since the process started
  lastCheck,            \* connectionState.lastCheck, NeverChecked while it is null
  calls,                \* the connection:test and bot:snapshot calls, one record per call
  sideProbes,           \* monitor: Date.now() of each probe fetchRemoteSnapshot started, in order
  remoteLogs,           \* remoteCache.logs
  logEvents,            \* number of log-carrying frames and responses delivered
  fn                    \* the last application of a pure function: [op, input, output]

vars == <<connectionState, configFile, wsClient, sessions, wsReconnectTimer, timers,
          manualWsDisconnect, staleDispatch, operatorDisconnected,
          runtimeState, act, actionsDone, clock, lastCheck, calls, sideProbes,
          remoteLogs, logEvents, fn>>

connVars == <<connectionState, configFile, wsClient, sessions, wsReconnectTimer, timers,
              manualWsDisconnect, staleDispatch, operatorDisconnected>>

actVars == <<runtimeState, act, actionsDone>>

pollVars == <<clock, lastCheck, calls, sideProbes>>

logVars == <<remoteLogs, logEvents>>

\* no pure function applied yet
NoApplication == [op |-> "none", input |-> <<>>, output |-> <<>>]

-----------------------------------------------------------------------------
(* Bounds *)

\* number of WebSocket objects the model lets connectWebSocket create
MaxSessions == 2

\* number of performBotAction calls the model lets the operator start
MaxActions == 3

\* number of frames and log responses with log lines the model lets arrive
MaxLogEvents == 3

\* number of connection:test and bot:snapshot calls the model lets start
MaxCalls == 2

\* the largest value of Date.now() the model lets the clock reach
MaxClock == 15002

Null == "null"
NeverChecked == -1
NoSession == 0
NoTimer == 0

SessionIds == 1..MaxSessions

-----------------------------------------------------------------------------
(* JavaScript values of a configuration field, and Number()                *)

\* a JSON value as it can stand in the configuration file
JsNum(n) == [t |-> "number", v |-> n]
JsNumStr(n) == [t |-> "numstr", v |-> n]
JsStr == [t |-> "string", v |-> 0]
JsEmptyStr == [t |-> "emptystr", v |-> 0]
JsNull == [t |-> "null", v |-> 0]
JsBool(b) == [t |-> "boolean", v |-> IF b THEN 1 ELSE 0]
JsInfinity == [t |-> "infinity", v |-> 0]
JsObject == [t |-> "object", v |-> 0]
JsUndefined == [t |-> "undefined", v |-> 0]

\* Number(value): [finite, n]; NaN and +-Infinity are the non-finite results
Number(value) ==
  CASE value.t = "number" -> [finite |-> TRUE, n |-> value.v]
    [] value.t = "numstr" -> [finite |-> TRUE, n |-> value.v]
    [] value.t = "emptystr" -> [finite |-> TRUE, n |-> 0]
    [] value.t = "null" -> [finite |-> TRUE, n |-> 0]
    [] value.t = "boolean" -> [finite |-> TRUE, n |-> value.v]
    [] OTHER -> [finite |-> FALSE, n |-> 0]

Max(a, b) == IF a >= b THEN a ELSE b
Min(a, b) == IF a <= b THEN a ELSE b

clampLowerOnly(value, min, max) == Max(min, value)

clamp(value, min, max) == Max(min, Min(max, value))

numberOrFallback(value, fallback) ==
  LET parsed == Number(value)
  IN IF parsed.finite THEN parsed.n ELSE fallback

-----------------------------------------------------------------------------
(* Configuration                                                           *)

\* A text (an endpoint as typed, or a URL) is the sequence of its pieces:
\* white space, a scheme name, "://", "/", a host with its port, a path
\* segment.  The empty string is the empty sequence.
WhiteSpace == " "

\* the host of the default API endpoint, and a host new URL() rejects
Host == "127.0.0.1:5050"
BadHost == "bad host"

DefaultApiEndpoint == <<"http", "://", Host>>
DefaultPollingIntervalMs == 5000

defaultConfig ==
  [apiEndpoint |-> DefaultApiEndpoint, wsEndpoint |-> <<>>, autoReconnect |-> TRUE,
   pollingIntervalMs |-> JsNum(DefaultPollingIntervalMs)]

\* trimStart and trimEnd of a text, and the regular expressions /^\/+/ and
\* /\/+$/: the text without the pieces equal to piece at its start, its end
RECURSIVE stripStart(_, _)
stripStart(text, piece) ==
  IF text # <<>> /\ Head(text) = piece THEN stripStart(Tail(text), piece) ELSE text

RECURSIVE stripEnd(_, _)
stripEnd(text, piece) ==
  IF text # <<>> /\ text[Len(text)] = piece
  THEN stripEnd(SubSeq(text, 1, Len(text) - 1), piece)
  ELSE text

\* text.trim()
trim(text) == stripEnd(stripStart(text, WhiteSpace), WhiteSpace)

\* a scheme name in lower case (the i flag of the regular expressions, and
\* the protocol new URL() reports)
lowerScheme(piece) ==
  CASE piece = "HTTP" -> "http"
    [] piece = "HTTPS" -> "https"
    [] piece = "WS" -> "ws"
    [] piece \in {"WSS", "wsS"} -> "wss"
    [] OTHER -> piece

\* /^https?:\/\//i.test(text)
hasHttpScheme(text) ==
  Len(text) >= 2 /\ lowerScheme(text[1]) \in {"http", "https"} /\ text[2] = "://"

\* /^wss?:\/\//i.test(text)
hasWsScheme(text) ==
  Len(text) >= 2 /\ lowerScheme(text[1]) \in {"ws", "wss"} /\ text[2] = "://"

\* text.replace(/^http/i, "ws")
replaceHttp(text) ==
  IF text = <<>> THEN text
  ELSE [text EXCEPT ![1] = CASE @ \in {"http", "HTTP"} -> "ws"
                             [] @ = "https" -> "wss"
                             [] @ = "HTTPS" -> "wsS"
                             [] OTHER -> @]

\* new URL(text) threw a TypeError
Thrown == [protocol |-> "", host |-> "", pathname |-> <<>>, threw |-> TRUE]

\* new URL(text): a text without an http, https, ws or wss scheme, without a
\* host, or with white space in its host makes it throw; slashes between
\* "://" and the host are skipped; "://" right after the host is an empty
\* port followed by the path "//"; without a path the pathname is "/"
URL(text) ==
  IF ~(hasHttpScheme(text) \/ hasWsScheme(text)) THEN Thrown
  ELSE LET rest == stripStart(SubSeq(text, 3, Len(text)), "/")
       IN IF rest = <<>> \/ rest[1] \in {BadHost, "://", WhiteSpace} THEN Thrown
          ELSE IF Len(rest) >= 2 /\ rest[2] \notin {"/", "://"} THEN Thrown
          ELSE [protocol |-> lowerScheme(text[1]),
                host |-> rest[1],
                pathname |-> IF Len(rest) = 1 THEN <<"/">>
                             ELSE IF rest[2] = "://"
                                  THEN <<"/", "/">> \o SubSeq(rest, 3, Len(rest))
                                  ELSE Tail(rest),
                threw |-> FALSE]

\* normalizeHttpEndpoint: the canonical API endpoint, "" when the endpoint is
\* empty or new URL() throws
normalizeHttpEndpoint(endpoint) ==
  LET raw == trim(endpoint)
      withProtocol == IF hasHttpScheme(raw) THEN raw ELSE <<"http", "://">> \o raw
      parsed == URL(withProtocol)
  IN IF raw = <<>> THEN <<>>
     ELSE IF parsed.threw THEN <<>>
     ELSE stripEnd(<<parsed.protocol, "://", parsed.host>> \o parsed.pathname, "/")

\* toWebSocketEndpoint: an explicit wsEndpoint wins, else the API endpoint + /ws
toWebSocketEndpointRawApi(config) ==
  LET rawWsEndpoint == trim(config.wsEndpoint)
      apiEndpoint == trim(config.apiEndpoint)
  IN IF rawWsEndpoint # <<>>
     THEN IF hasWsScheme(rawWsEndpoint) THEN rawWsEndpoint
          ELSE IF hasHttpScheme(rawWsEndpoint) THEN replaceHttp(rawWsEndpoint)
          ELSE <<"ws", "://">> \o stripStart(rawWsEndpoint, "/")
     ELSE IF apiEndpoint = <<>> THEN <<>>
          ELSE replaceHttp(apiEndpoint) \o <<"/", "ws">>

toWebSocketEndpoint(config) ==
  LET rawWsEndpoint == trim(config.wsEndpoint)
      apiEndpoint == normalizeHttpEndpoint(config.apiEndpoint)
  IN IF rawWsEndpoint # <<>>
     THEN IF hasWsScheme(rawWsEndpoint) THEN rawWsEndpoint
          ELSE IF hasHttpScheme(rawWsEndpoint) THEN replaceHttp(rawWsEndpoint)
          ELSE <<"ws", "://">> \o stripStart(rawWsEndpoint, "/")
     ELSE IF apiEndpoint = <<>> THEN <<>>
          ELSE replaceHttp(apiEndpoint) \o <<"/", "ws">>

\* new WebSocket(url) throws a SyntaxError on a URL it cannot parse
WebSocketCtorThrows(wsEndpoint) == URL(wsEndpoint).threw

\* the endpoint texts the configurations of the state machine hold
ConfigEndpoints ==
  {<<>>, DefaultApiEndpoint, <<"http", "://">>, <<"ws", "://", Host, "/", "stream">>}

\* normalizeHttpEndpoint(config.apiEndpoint) for each of them, computed once
apiEndpointOf ==
  [endpoint \in ConfigEndpoints |-> normalizeHttpEndpoint(endpoint)]

\* toWebSocketEndpoint(config) for each wsEndpoint and apiEndpoint among
\* them, computed once, with what new WebSocket() does with the result
wsEndpointOf ==
  [ws \in ConfigEndpoints |->
     [api \in ConfigEndpoints |->
        LET wsEndpoint == toWebSocketEndpoint([wsEndpoint |-> ws, apiEndpoint |-> api])
        IN [wsEndpoint |-> wsEndpoint, throws |-> WebSocketCtorThrows(wsEndpoint)]]]

\* what the settings form hands to saveConfig
SaveInputs ==
  { [apiEndpoint |-> DefaultApiEndpoint, wsEndpoint |-> <<>>, autoReconnect |-> TRUE,
     pollingIntervalMs |-> JsNum(5000)],
    [apiEndpoint |-> DefaultApiEndpoint, wsEndpoint |-> <<>>, autoReconnect |-> FALSE,
     pollingIntervalMs |-> JsNum(200000)],
    [apiEndpoint |-> <<"http", "://">>, wsEndpoint |-> <<>>, autoReconnect |-> TRUE,
     pollingIntervalMs |-> JsEmptyStr] }

\* the record saveConfig writes to the file
mergedConfig(nextConfig) ==
  [apiEndpoint |-> IF nextConfig.apiEndpoint = <<>> THEN defaultConfig.apiEndpoint
                   ELSE nextConfig.apiEndpoint,
   wsEndpoint |-> nextConfig.wsEndpoint,
   autoReconnect |-> nextConfig.autoReconnect,
   pollingIntervalMs |->
     JsNum(clamp(numberOrFallback(nextConfig.pollingIntervalMs,
                                  DefaultPollingIntervalMs), 1000, 120000))]

-----------------------------------------------------------------------------
(* ConnectionState                                                         *)

\* lastEventAt holds new Date().toISOString(): null, the time the last session
\* opened (line 416), or the time the last frame was handled (line 349)
initialConnectionState ==
  [mode |-> "local", apiReachable |-> FALSE, apiLatencyMs |-> Null,
   wsConnected |-> FALSE, lastEventAt |-> Null, lastError |-> Null]

-----------------------------------------------------------------------------
(* Sessions: one record per WebSocket object                               *)

ExplicitTimeoutMs == 2200
ReconnectTimeoutMs == 1400

NoSessionRecord ==
  [st |-> "none", listeners |-> FALSE, isReconnect |-> FALSE, timeoutMs |-> 0,
   timeoutPending |-> FALSE, resolved |-> FALSE, resolveCalls |-> 0,
   openPc |-> "idle", closePc |-> "idle"]

Created == {s \in SessionIds : sessions[s].st # "none"}

NextSession == Cardinality(Created) + 1

\* resolveOnce of the promise of one connectWebSocket call; resolveCalls counts
\* the calls of resolve() it makes
ResolveOnceUnguarded(sess) ==
  [sess EXCEPT !.resolved = TRUE, !.resolveCalls = @ + 1]

ResolveOnce(sess) ==
  IF ~sess.resolved
  THEN [sess EXCEPT !.resolved = TRUE, !.resolveCalls = @ + 1]
  ELSE sess

-----------------------------------------------------------------------------
(* Snapshot cache                                                          *)

\* successRate is kept in tenths of a percent (943 is 94.3); lastHeartbeat is
\* the origin of the stamp: "boot", "stamped" (new Date() of this process) or
\* "remote" (taken from a payload)
initialRuntimeState ==
  [status |-> "idle", queueDepth |-> 18, jobsProcessed |-> 1284, successRate |-> 943,
   activeWorkers |-> 4, lastHeartbeat |-> "boot"]

\* normalized snapshots an HTTP response can carry
RemoteSnapshots ==
  { [status |-> "idle", queueDepth |-> 1, jobsProcessed |-> 99999998, successRate |-> 998,
     activeWorkers |-> 3, lastHeartbeat |-> "remote"],
    [status |-> "running", queueDepth |-> 0, jobsProcessed |-> 0, successRate |-> 1000,
     activeWorkers |-> 1000, lastHeartbeat |-> "remote"],
    [status |-> "paused", queueDepth |-> 10000, jobsProcessed |-> 7, successRate |-> 0,
     activeWorkers |-> 7, lastHeartbeat |-> "remote"] }

\* no snapshot (null)
NoSnapshot ==
  [status |-> "none", queueDepth |-> 0, jobsProcessed |-> 0, successRate |-> 0,
   activeWorkers |-> 0, lastHeartbeat |-> "none"]

\* normalized snapshots a stream frame can carry
StreamSnapshots ==
  { [status |-> "running", queueDepth |-> 3, jobsProcessed |-> 2000, successRate |-> 990,
     activeWorkers |-> 8, lastHeartbeat |-> "remote"] }

\* mergeSnapshot: every field of a normalized snapshot overrides the cached one
mergeSnapshotKeepingCache(snapshot) ==
  [f \in DOMAIN runtimeState |->
     IF f \in DOMAIN runtimeState THEN runtimeState[f] ELSE snapshot[f]]

mergeSnapshot(snapshot) ==
  [f \in DOMAIN runtimeState |->
     IF f \in DOMAIN snapshot THEN snapshot[f] ELSE runtimeState[f]]

\* getLocalSnapshot: stamps lastHeartbeat in place and returns a copy
getLocalSnapshot(rs) == [rs EXCEPT !.lastHeartbeat = "stamped"]

-----------------------------------------------------------------------------
(* Log cache: remoteCache.logs                                             *)

\* the cap of the cache
LogCap == 500

\* entries of a log payload, or lines of a text: a string that is plain,
\* blank, or starts with a bracketed ISO timestamp already; an object with
\* a message and a level; a number.  body identifies the text.
PlainLine(x) == [t |-> "string", body |-> x, stamped |-> FALSE, blank |-> FALSE, level |-> ""]
StampedLine(x) == [t |-> "string", body |-> x, stamped |-> TRUE, blank |-> FALSE, level |-> "INFO"]
BlankLine == [t |-> "string", body |-> 0, stamped |-> FALSE, blank |-> TRUE, level |-> ""]
ObjectEntry(x, level) == [t |-> "object", body |-> x, stamped |-> FALSE, blank |-> FALSE, level |-> level]
NumberEntry == [t |-> "number", body |-> 0, stamped |-> FALSE, blank |-> FALSE, level |-> ""]

\* what the map of extractLogs returns for an entry it drops (null)
NoLine == [body |-> 0, level |-> "", form |-> "none"]

\* String(level).toUpperCase() on the levels the model enters
toUpperCase(level) ==
  CASE level = "warn" -> "WARN"
    [] level = "error" -> "ERROR"
    [] OTHER -> level

\* the map of extractLogs on one entry: a cached line is [body, level, form];
\* form tells how the string was built: "formatted" by formatLog with level
\* REMOTE, "asis" for a line kept unchanged, "object" from an entry object
formatEntryAlwaysFormatted(entry) ==
  CASE entry.t = "string" ->
         IF entry.blank THEN NoLine
         ELSE [body |-> entry.body, level |-> "REMOTE", form |-> "formatted"]
    [] entry.t = "object" ->
         [body |-> entry.body,
          level |-> IF entry.level = "" THEN "REMOTE" ELSE toUpperCase(entry.level),
          form |-> "object"]
    [] OTHER -> NoLine

formatEntry(entry) ==
  CASE entry.t = "string" ->
         IF entry.blank THEN NoLine
         ELSE IF entry.stamped
              THEN [body |-> entry.body, level |-> entry.level, form |-> "asis"]
              ELSE [body |-> entry.body, level |-> "REMOTE", form |-> "formatted"]
    [] entry.t = "object" ->
         [body |-> entry.body,
          level |-> IF entry.level = "" THEN "REMOTE" ELSE toUpperCase(entry.level),
          form |-> "object"]
    [] OTHER -> NoLine

\* seq.slice(-n)
sliceFirst(seq, n) ==
  IF Len(seq) <= n THEN seq ELSE SubSeq(seq, 1, n)

slice(seq, n) ==
  IF Len(seq) <= n THEN seq ELSE SubSeq(seq, Len(seq) - n + 1, Len(seq))

IsLine(line) == line # NoLine

\* a payload is [shape, entries]: shape "array", "logs", "data" (an array at
\* top level or under that key), "log", "message" (one string under that
\* key), or a shape without log entries ("null", "number", "snapshot")
NoPayload == [shape |-> "null", entries |-> <<>>]

\* text.trim().length > 0
HasText(text) == \E i \in 1..Len(text) : ~text[i].blank

\* extractLogs(payload, text): text is the sequence of lines text.split() gives
extractLogs(payload, text) ==
  LET entries ==
        IF payload.shape \in {"array", "logs", "data", "log", "message"}
        THEN payload.entries
        ELSE IF HasText(text) THEN text ELSE <<>>
      mapped == [i \in 1..Len(entries) |-> formatEntry(entries[i])]
  IN slice(SelectSeq(mapped, IsLine), LogCap)

\* [...remoteCache.logs, ...lines].slice(-500)
appendLogsUncapped(logs, lines) == logs \o lines

appendLogs(logs, lines) == slice(logs \o lines, LogCap)

-----------------------------------------------------------------------------
(* Reconnect timer                                                         *)

\* clearReconnectTimer: the pending timers left once the handle is cleared
clearReconnectTimerHandleOnly(pending) == pending

clearReconnectTimer(pending) ==
  IF wsReconnectTimer # NoTimer
  THEN {t \in pending : t.id # wsReconnectTimer}
  ELSE pending

\* the delay maybeScheduleReconnect hands to setTimeout
ReconnectDelayUnclamped(config) ==
  numberOrFallback(config.pollingIntervalMs, 5000)

ReconnectDelay(config) ==
  clamp(numberOrFallback(config.pollingIntervalMs, 5000), 2000, 30000)

\* maybeScheduleReconnect(config), called by the close handler of session id:
\* the pending timers afterwards
maybeScheduleReconnectNever(config, id) == timers

maybeScheduleReconnectNoClear(config, id) ==
  IF ~config.autoReconnect \/ manualWsDisconnect
  THEN timers
  ELSE timers \cup {[id |-> id, delayMs |-> ReconnectDelay(config), config |-> config]}

maybeScheduleReconnect(config, id) ==
  IF ~config.autoReconnect \/ manualWsDisconnect
  THEN timers
  ELSE clearReconnectTimer(timers)
         \cup {[id |-> id, delayMs |-> ReconnectDelay(config), config |-> config]}

\* the handle after maybeScheduleReconnect(config)
ScheduledHandle(config, id) ==
  IF ~config.autoReconnect \/ manualWsDisconnect THEN wsReconnectTimer ELSE id

-----------------------------------------------------------------------------
(* Session open / close                                                    *)

\* closeWebSocketClient: removeAllListeners() and close() on the current client
closeWebSocketClientKeepListeners ==
  IF wsClient = NoSession
  THEN sessions
  ELSE [sessions EXCEPT
          ![wsClient].st = IF @ \in {"connecting", "open", "errored"} THEN "closing" ELSE @]

closeWebSocketClient ==
  IF wsClient = NoSession
  THEN sessions
  ELSE [sessions EXCEPT
          ![wsClient].listeners = FALSE,
          ![wsClient].st = IF @ \in {"connecting", "open", "errored"} THEN "closing" ELSE @]

NewSession(isReconnect) ==
  [NoSessionRecord EXCEPT
     !.st = "connecting", !.listeners = TRUE, !.isReconnect = isReconnect,
     !.timeoutMs = IF isReconnect THEN ReconnectTimeoutMs ELSE ExplicitTimeoutMs,
     !.timeoutPending = TRUE]

\* connectWebSocket(config, isReconnect) up to the return of its promise;
\* pending is the set of timers pending when it is called
\* connectWebSocket without the test of lines 382-386: an empty stream
\* endpoint goes on to new WebSocket(""), which throws
connectWebSocketNoEndpointTest(config, isReconnect, pending) ==
  /\ manualWsDisconnect' = FALSE
  /\ timers' = clearReconnectTimer(pending)
  /\ wsReconnectTimer' = NoTimer
  /\ IF wsEndpointOf[config.wsEndpoint][config.apiEndpoint].throws
     THEN /\ wsClient' = NoSession
          /\ sessions' = closeWebSocketClient
          /\ connectionState' =
               [connectionState EXCEPT
                  !.wsConnected = FALSE, !.lastError = "Invalid URL"]
     ELSE /\ NextSession <= MaxSessions
          /\ wsClient' = NextSession
          /\ sessions' =
               [closeWebSocketClient EXCEPT ![NextSession] = NewSession(isReconnect)]
          /\ UNCHANGED connectionState

connectWebSocket(config, isReconnect, pending) ==
  LET target == wsEndpointOf[config.wsEndpoint][config.apiEndpoint]
  IN IF target.wsEndpoint = <<>>
     THEN /\ connectionState' =
               [connectionState EXCEPT
                  !.wsConnected = FALSE,
                  !.lastError = "WebSocket endpoint is not configured"]
          /\ timers' = pending
          /\ UNCHANGED <<wsClient, sessions, wsReconnectTimer, manualWsDisconnect>>
     ELSE /\ manualWsDisconnect' = FALSE
          /\ timers' = clearReconnectTimer(pending)
          /\ wsReconnectTimer' = NoTimer
          /\ IF target.throws
             THEN /\ wsClient' = NoSession
                  /\ sessions' = closeWebSocketClient
                  /\ connectionState' =
                       [connectionState EXCEPT
                          !.wsConnected = FALSE, !.lastError = "Invalid URL"]
             ELSE /\ NextSession <= MaxSessions
                  /\ wsClient' = NextSession
                  /\ sessions' =
                       [closeWebSocketClient EXCEPT ![NextSession] = NewSession(isReconnect)]
                  /\ UNCHANGED connectionState

\* ipc "connection:connectWs": readConfig(), then connectWebSocket(config)
ConnectIpc ==
  /\ connectWebSocket(configFile, FALSE, timers)
  /\ operatorDisconnected' = FALSE
  /\ UNCHANGED <<configFile, staleDispatch>>
  /\ UNCHANGED actVars
  /\ UNCHANGED <<pollVars, logVars, fn>>

\* the reconnect timer's callback: connectWebSocket(config, true) with the
\* configuration captured when the timer was set
ReconnectTimerFire ==
  \E t \in timers :
    /\ connectWebSocket(t.config, TRUE, timers \ {t})
    /\ UNCHANGED <<configFile, staleDispatch, operatorDisconnected>>
    /\ UNCHANGED actVars
    /\ UNCHANGED <<pollVars, logVars, fn>>

\* disconnectWebSocket up to its await appendLog
DisconnectWebSocket ==
  /\ manualWsDisconnect' = TRUE
  /\ timers' = clearReconnectTimer(timers)
  /\ wsReconnectTimer' = NoTimer
  /\ sessions' = closeWebSocketClient
  /\ wsClient' = NoSession
  /\ connectionState' = [connectionState EXCEPT !.wsConnected = FALSE]
  /\ operatorDisconnected' = TRUE
  /\ UNCHANGED <<configFile, staleDispatch>>
  /\ UNCHANGED actVars
  /\ UNCHANGED <<pollVars, logVars, fn>>

-----------------------------------------------------------------------------
(* Socket events and their listeners                                       *)

\* a frame is [kind, snapshot, payload, text]: kind "text" when JSON.parse
\* throws or yields a string (text holds its lines), "object", "array" or
\* "other" (a JSON number, boolean or null) otherwise; snapshot holds the
\* snapshot fields of an object, NoSnapshot when it has none
TextFrame(text) ==
  [kind |-> "text", snapshot |-> NoSnapshot, payload |-> NoPayload, text |-> text]

ObjectFrame(snapshot, payload) ==
  [kind |-> "object", snapshot |-> snapshot, payload |-> payload, text |-> <<>>]

\* frames without log lines: white space, or a JSON object with a snapshot
StreamFrames ==
  {TextFrame(<<BlankLine>>)}
    \cup {ObjectFrame(s, [shape |-> "snapshot", entries |-> <<>>]) : s \in StreamSnapshots}

\* a text of n plain lines
PlainText(first, n) == [i \in 1..n |-> PlainLine(first + i)]

\* frames with log lines: "job finished"; a text with a stamped, a blank and
\* a plain line; texts of 499 and of 501 lines; the JSON number 42; a JSON
\* object with a logs array
LogFrames ==
  { TextFrame(<<PlainLine(1)>>),
    TextFrame(<<StampedLine(2), BlankLine, PlainLine(3)>>),
    TextFrame(PlainText(1000, LogCap - 1)),
    TextFrame(PlainText(2000, LogCap + 1)),
    [kind |-> "other", snapshot |-> NoSnapshot, payload |-> [shape |-> "number", entries |-> <<>>],
     text |-> <<>>],
    ObjectFrame(NoSnapshot,
                [shape |-> "logs",
                 entries |-> <<ObjectEntry(4, "warn"), PlainLine(5), NumberEntry>>]) }

\* normalizeSnapshot(parsed) on a frame: null unless parsed is an object that
\* is no array and has no data array; absent fields fall back to the cache
\* and the heartbeat to new Date()
normalizeSnapshot(frame) ==
  IF frame.kind # "object" \/ frame.payload.shape = "data"
  THEN NoSnapshot
  ELSE IF frame.snapshot = NoSnapshot
       THEN [runtimeState EXCEPT !.lastHeartbeat = "stamped"]
       ELSE frame.snapshot

\* handleWsPayload: the cached Snapshot it leaves
handleWsPayloadSnapshot(frame) ==
  IF frame.kind = "text"
  THEN runtimeState
  ELSE LET snapshot == normalizeSnapshot(frame)
       IN IF snapshot # NoSnapshot THEN mergeSnapshot(snapshot) ELSE runtimeState

\* handleWsPayload: the log cache it leaves
handleWsPayloadLogs(frame) ==
  LET lines == IF frame.kind = "text"
               THEN extractLogs(NoPayload, frame.text)
               ELSE extractLogs(frame.payload, <<>>)
  IN IF Len(lines) > 0 THEN appendLogs(remoteLogs, lines) ELSE remoteLogs

\* a listener of session s runs: the monitor notes whether s is the current client
Dispatched(s) == staleDispatch' = (staleDispatch \/ s # wsClient)

\* "open" listener up to its await appendLog
SockOpen(s) ==
  /\ sessions[s].st = "connecting"
  /\ sessions[s].listeners
  /\ connectionState' =
       [connectionState EXCEPT
          !.wsConnected = TRUE, !.mode = "remote", !.lastError = Null,
          !.lastEventAt = "open"]
  /\ sessions' = [sessions EXCEPT ![s].st = "open", ![s].openPc = "awaitLog"]
  /\ Dispatched(s)
  /\ UNCHANGED <<configFile, wsClient, wsReconnectTimer, timers, manualWsDisconnect,
                 operatorDisconnected>>
  /\ UNCHANGED actVars
  /\ UNCHANGED <<pollVars, logVars, fn>>

\* "open" listener after appendLog: resolveOnce(copyConnectionState())
OpenAfterLog(s) ==
  /\ sessions[s].openPc = "awaitLog"
  /\ sessions' =
       [sessions EXCEPT
          ![s] = ResolveOnce([@ EXCEPT !.openPc = "idle"])]
  /\ UNCHANGED <<connectionState, configFile, wsClient, wsReconnectTimer, timers,
                 manualWsDisconnect, staleDispatch, operatorDisconnected>>
  /\ UNCHANGED actVars
  /\ UNCHANGED <<pollVars, logVars, fn>>

\* handleWsPayload: the connection fields it writes
handleWsPayloadNoMark ==
  [connectionState EXCEPT !.lastEventAt = "frame", !.lastError = Null]

handleWsPayloadConnection ==
  [connectionState EXCEPT
     !.lastEventAt = "frame", !.apiReachable = TRUE, !.mode = "remote", !.lastError = Null]

\* "message" listener: handleWsPayload(message.toString())
SockMessage(s, frame) ==
  /\ sessions[s].st = "open"
  /\ sessions[s].listeners
  /\ connectionState' = handleWsPayloadConnection
  /\ runtimeState' = handleWsPayloadSnapshot(frame)
  /\ remoteLogs' = handleWsPayloadLogs(frame)
  /\ IF frame \in LogFrames
     THEN logEvents < MaxLogEvents /\ logEvents' = logEvents + 1
     ELSE UNCHANGED logEvents
  /\ UNCHANGED fn
  /\ Dispatched(s)
  /\ UNCHANGED <<configFile, wsClient, sessions, wsReconnectTimer, timers,
                 manualWsDisconnect, operatorDisconnected, act, actionsDone>>
  /\ UNCHANGED pollVars

\* "error" listener: records lastError and resolves the pending connect
SockError(s) ==
  /\ sessions[s].st \in {"connecting", "open"}
  /\ sessions[s].listeners
  /\ connectionState' = [connectionState EXCEPT !.lastError = "WebSocket error"]
  /\ sessions' =
       [sessions EXCEPT ![s] = ResolveOnce([@ EXCEPT !.st = "errored"])]
  /\ Dispatched(s)
  /\ UNCHANGED <<configFile, wsClient, wsReconnectTimer, timers, manualWsDisconnect,
                 operatorDisconnected>>
  /\ UNCHANGED actVars
  /\ UNCHANGED <<pollVars, logVars, fn>>

\* "close" listener up to its first await (appendLog when the stream was
\* connected, readConfig otherwise)
SockClose(s) ==
  /\ sessions[s].st \in {"open", "errored", "closing"}
  /\ sessions[s].listeners
  /\ connectionState' = [connectionState EXCEPT !.wsConnected = FALSE]
  /\ sessions' =
       [sessions EXCEPT
          ![s].st = "closed",
          ![s].closePc = IF connectionState.wsConnected THEN "awaitLog" ELSE "awaitConfig"]
  /\ Dispatched(s)
  /\ UNCHANGED <<configFile, wsClient, wsReconnectTimer, timers, manualWsDisconnect,
                 operatorDisconnected>>
  /\ UNCHANGED actVars
  /\ UNCHANGED <<pollVars, logVars, fn>>

\* "close" listener after appendLog, awaiting readConfig
CloseAfterLog(s) ==
  /\ sessions[s].closePc = "awaitLog"
  /\ sessions' = [sessions EXCEPT ![s].closePc = "awaitConfig"]
  /\ UNCHANGED <<connectionState, configFile, wsClient, wsReconnectTimer, timers,
                 manualWsDisconnect, staleDispatch, operatorDisconnected>>
  /\ UNCHANGED actVars
  /\ UNCHANGED <<pollVars, logVars, fn>>

\* "close" listener after readConfig: maybe schedule a reconnect, then resolveOnce
CloseAfterConfig(s) ==
  /\ sessions[s].closePc = "awaitConfig"
  /\ LET latestConfig == configFile
     IN /\ IF ~manualWsDisconnect
           THEN /\ timers' = maybeScheduleReconnect(latestConfig, s)
                /\ wsReconnectTimer' = ScheduledHandle(latestConfig, s)
           ELSE UNCHANGED <<timers, wsReconnectTimer>>
        /\ sessions' =
             [sessions EXCEPT
                ![s] = ResolveOnce([@ EXCEPT !.closePc = "idle"])]
  /\ UNCHANGED <<connectionState, configFile, wsClient, manualWsDisconnect,
                 staleDispatch, operatorDisconnected>>
  /\ UNCHANGED actVars
  /\ UNCHANGED <<pollVars, logVars, fn>>

\* the setTimeout of connectWebSocket (2200 ms, 1400 ms on a reconnect) fires
ConnectTimeout(s) ==
  /\ sessions[s].timeoutPending
  /\ sessions' =
       [sessions EXCEPT
          ![s] = ResolveOnce([@ EXCEPT !.timeoutPending = FALSE])]
  /\ UNCHANGED <<connectionState, configFile, wsClient, wsReconnectTimer, timers,
                 manualWsDisconnect, staleDispatch, operatorDisconnected>>
  /\ UNCHANGED actVars
  /\ UNCHANGED <<pollVars, logVars, fn>>

-----------------------------------------------------------------------------
(* Configuration save and HTTP requests: the ConnectionState they write    *)

\* saveConfig(nextConfig): the file it writes
SaveConfig(nextConfig) ==
  /\ configFile' = mergedConfig(nextConfig)
  /\ UNCHANGED <<connectionState, wsClient, sessions, wsReconnectTimer, timers,
                 manualWsDisconnect, staleDispatch, operatorDisconnected>>
  /\ UNCHANGED actVars
  /\ UNCHANGED <<pollVars, logVars, fn>>

\* transport errors fetchEndpoint reports
ProbeErrors == {"API endpoint did not respond"}

\* probeApiConnection with an empty API endpoint
ProbeNotConfigured ==
  /\ apiEndpointOf[configFile.apiEndpoint] = <<>>
  /\ connectionState' =
       [connectionState EXCEPT
          !.apiReachable = FALSE, !.apiLatencyMs = Null,
          !.mode = IF connectionState.wsConnected THEN "remote" ELSE "local",
          !.lastError = "API endpoint is not configured"]
  /\ UNCHANGED <<configFile, wsClient, sessions, wsReconnectTimer, timers,
                 manualWsDisconnect, staleDispatch, operatorDisconnected>>
  /\ UNCHANGED actVars
  /\ lastCheck' = clock
  /\ UNCHANGED <<clock, calls, sideProbes, logVars, fn>>

\* probeApiConnection: a health candidate answered
ProbeReachable ==
  /\ apiEndpointOf[configFile.apiEndpoint] # <<>>
  /\ connectionState' =
       [connectionState EXCEPT
          !.apiReachable = TRUE, !.apiLatencyMs = "measured", !.mode = "remote",
          !.lastError = Null]
  /\ UNCHANGED <<configFile, wsClient, sessions, wsReconnectTimer, timers,
                 manualWsDisconnect, staleDispatch, operatorDisconnected>>
  /\ UNCHANGED actVars
  /\ lastCheck' = clock
  /\ UNCHANGED <<clock, calls, sideProbes, logVars, fn>>

\* probeApiConnection: every health candidate failed
ProbeUnreachable(latestError) ==
  /\ apiEndpointOf[configFile.apiEndpoint] # <<>>
  /\ connectionState' =
       [connectionState EXCEPT
          !.apiReachable = FALSE, !.apiLatencyMs = Null,
          !.mode = IF connectionState.wsConnected THEN "remote" ELSE "local",
          !.lastError = latestError]
  /\ UNCHANGED <<configFile, wsClient, sessions, wsReconnectTimer, timers,
                 manualWsDisconnect, staleDispatch, operatorDisconnected>>
  /\ UNCHANGED actVars
  /\ lastCheck' = clock
  /\ UNCHANGED <<clock, calls, sideProbes, logVars, fn>>

\* the connection fields fetchRemoteSnapshot and fetchRemoteLogs write on success
fetchSucceededConnectionModeKept ==
  [connectionState EXCEPT !.apiReachable = TRUE, !.lastError = Null]

fetchSucceededConnection ==
  [connectionState EXCEPT !.apiReachable = TRUE, !.mode = "remote", !.lastError = Null]

\* getSnapshot: a snapshot candidate answered and its snapshot is merged
GetSnapshotRemote(snapshot) ==
  /\ apiEndpointOf[configFile.apiEndpoint] # <<>>
  /\ connectionState' = fetchSucceededConnection
  /\ runtimeState' = mergeSnapshot(snapshot)
  /\ UNCHANGED <<configFile, wsClient, sessions, wsReconnectTimer, timers,
                 manualWsDisconnect, staleDispatch, operatorDisconnected, act,
                 actionsDone>>
  /\ UNCHANGED <<pollVars, logVars, fn>>

\* the body of a logs response: a JSON array with one stamped line
ServerLog == [shape |-> "array", entries |-> <<StampedLine(10)>>]

\* bodies of logs responses: [data, text].  A JSON array of two stamped
\* lines; an object with a logs array of 501 strings; an empty array
LogResponses ==
  { [data |-> [shape |-> "array", entries |-> <<StampedLine(10), StampedLine(11)>>],
     text |-> <<>>],
    [data |-> [shape |-> "logs", entries |-> PlainText(3000, LogCap + 1)], text |-> <<>>],
    [data |-> [shape |-> "array", entries |-> <<>>], text |-> <<>>] }

\* fetchRemoteLogs: a logs candidate answered with HTTP success and this
\* body; a body without lines leaves the cache as it is
FetchLogs(response) ==
  /\ apiEndpointOf[configFile.apiEndpoint] # <<>>
  /\ logEvents < MaxLogEvents
  /\ logEvents' = logEvents + 1
  /\ LET parsedLogs == extractLogs(response.data, response.text)
     IN IF Len(parsedLogs) > 0
        THEN /\ remoteLogs' = parsedLogs
             /\ connectionState' = fetchSucceededConnection
        ELSE UNCHANGED <<remoteLogs, connectionState>>
  /\ UNCHANGED <<configFile, wsClient, sessions, wsReconnectTimer, timers,
                 manualWsDisconnect, staleDispatch, operatorDisconnected>>
  /\ UNCHANGED <<actVars, pollVars, fn>>

\* getCombinedLogs: a logs candidate answered with at least one line
GetLogsRemote ==
  /\ apiEndpointOf[configFile.apiEndpoint] # <<>>
  /\ connectionState' = fetchSucceededConnection
  /\ UNCHANGED <<configFile, wsClient, sessions, wsReconnectTimer, timers,
                 manualWsDisconnect, staleDispatch, operatorDisconnected>>
  /\ UNCHANGED actVars
  /\ remoteLogs' = extractLogs(ServerLog, <<>>)
  /\ UNCHANGED <<pollVars, logEvents, fn>>

-----------------------------------------------------------------------------
(* Probes and snapshot fetches, candidate by candidate                     *)

\* the candidate paths, in the order the loops request them
healthPaths == <<"/health", "/api/health", "/status", "/api/status", "/">>

snapshotPaths == <<"/snapshot", "/api/snapshot", "/bot/snapshot", "/status", "/api/status">>

HealthPathCount == Len(healthPaths)

SnapshotPathCount == Len(snapshotPaths)

\* shouldProbeNow: the cool-down between probes started by snapshot fetches
ProbeCooldownMs == 15000

CallIds == 1..MaxCalls

\* one connection:test or bot:snapshot call.  pc "probe": awaiting health
\* candidate idx; pc "snapshot": awaiting snapshot candidate idx.  phase
\* tells who called probeApiConnection: "own" the connection:test handler,
\* "side" fetchRemoteSnapshot.  latestError is the local of the probe in
\* progress, errors the transport errors it has seen so far, in order.
\* startedAt, asked, won and latencyMs belong to the probe whose result the
\* connection:test handler receives: its local startedAt, the paths it
\* requested, whether one won, and the latency it measured
\* (fetchRemoteSnapshot drops the result of the probe it starts).  wrote:
\* the snapshot the call passed to mergeSnapshot, NoSnapshot when none.
NoCall ==
  [kind |-> "none", pc |-> "idle", phase |-> "none", idx |-> 0,
   latestError |-> "", errors |-> <<>>, startedAt |-> 0,
   asked |-> <<>>, won |-> FALSE, latencyMs |-> 0, wrote |-> NoSnapshot]

\* a response of fetchEndpoint to a health request: [ok, status, error]
HttpResponse(status) ==
  [ok |-> status >= 200 /\ status <= 299, status |-> status, error |-> ""]

TransportError(message) == [ok |-> FALSE, status |-> 0, error |-> message]

\* the test of probeApiConnection on a response
WinsUnlessNotFound(response) ==
  response.ok \/ (response.status >= 200 /\ response.status # 404)

WinsAnyStatus(response) ==
  response.ok \/ (response.status >= 200 /\ response.status < 500)

Wins(response) ==
  response.ok \/ (response.status >= 200 /\ response.status < 500 /\ response.status # 404)

\* shouldProbeNow()
shouldProbeNowNoCooldown == TRUE

shouldProbeNow ==
  IF lastCheck = NeverChecked THEN TRUE ELSE clock - lastCheck > ProbeCooldownMs

\* the ConnectionState probeApiConnection leaves
probeNotConfiguredConnectionKeepsMode ==
  [connectionState EXCEPT
     !.apiReachable = FALSE, !.apiLatencyMs = Null,
     !.lastError = "API endpoint is not configured"]

probeNotConfiguredConnection ==
  [connectionState EXCEPT
     !.apiReachable = FALSE, !.apiLatencyMs = Null,
     !.mode = IF connectionState.wsConnected THEN "remote" ELSE "local",
     !.lastError = "API endpoint is not configured"]

probeWonConnection ==
  [connectionState EXCEPT
     !.apiReachable = TRUE, !.apiLatencyMs = "measured", !.mode = "remote",
     !.lastError = Null]

probeFailedConnection(latestError) ==
  [connectionState EXCEPT
     !.apiReachable = FALSE, !.apiLatencyMs = Null,
     !.mode = IF connectionState.wsConnected THEN "remote" ELSE "local",
     !.lastError = latestError]

\* the local latestError after a response that did not win
nextLatestErrorKeepFirst(latestError, response) ==
  IF response.error # "" /\ latestError = "API endpoint did not respond"
  THEN response.error
  ELSE latestError

nextLatestError(latestError, response) ==
  IF response.error # "" THEN response.error ELSE latestError

\* probeApiConnection(config) with a non-empty endpoint up to its first await
StartedProbe(call, phase) ==
  [call EXCEPT !.pc = "probe", !.phase = phase, !.idx = 1,
               !.latestError = "API endpoint did not respond", !.errors = <<>>,
               !.startedAt = IF phase = "own" THEN clock ELSE 0,
               !.asked = IF phase = "own" THEN <<healthPaths[1]>> ELSE <<>>,
               !.won = FALSE, !.latencyMs = 0]

\* fetchRemoteSnapshot(config) with a non-empty endpoint up to its first
\* await: a probe when shouldProbeNow() says so, else the first candidate
EnterFetch(c, call) ==
  IF shouldProbeNow
  THEN /\ lastCheck' = clock
       /\ sideProbes' = Append(sideProbes, clock)
       /\ calls' = [calls EXCEPT ![c] = StartedProbe(call, "side")]
  ELSE /\ calls' = [calls EXCEPT ![c] = [call EXCEPT !.pc = "snapshot", !.idx = 1]]
       /\ UNCHANGED <<lastCheck, sideProbes>>

\* Date.now() advances
TickSteps == {7500, 7501}

Tick(d) ==
  /\ clock + d <= MaxClock
  /\ clock' = clock + d
  /\ UNCHANGED <<connVars, actVars, lastCheck, calls, sideProbes, logVars, fn>>

\* ipc "connection:test" after readConfig: probeApiConnection(config) up to
\* its first await, or to its return when the endpoint is empty
TestBegin(c) ==
  /\ calls[c].pc \in {"idle", "done"}
  /\ lastCheck' = clock
  /\ IF apiEndpointOf[configFile.apiEndpoint] = <<>>
     THEN /\ connectionState' = probeNotConfiguredConnection
          /\ calls' = [calls EXCEPT
                         ![c] = [NoCall EXCEPT !.kind = "test", !.pc = "done",
                                               !.phase = "own"]]
     ELSE /\ calls' = [calls EXCEPT
                         ![c] = StartedProbe([NoCall EXCEPT !.kind = "test"], "own")]
          /\ UNCHANGED connectionState
  /\ UNCHANGED <<configFile, wsClient, sessions, wsReconnectTimer, timers,
                 manualWsDisconnect, staleDispatch, operatorDisconnected>>
  /\ UNCHANGED <<actVars, clock, sideProbes, logVars, fn>>

\* ipc "bot:snapshot" after readConfig: fetchRemoteSnapshot(config) up to
\* its first await; with an empty endpoint getSnapshot returns getLocalSnapshot()
SnapshotBegin(c) ==
  /\ calls[c].pc \in {"idle", "done"}
  /\ IF apiEndpointOf[configFile.apiEndpoint] = <<>>
     THEN /\ runtimeState' = getLocalSnapshot(runtimeState)
          /\ calls' = [calls EXCEPT
                         ![c] = [NoCall EXCEPT !.kind = "snapshot", !.pc = "done"]]
          /\ UNCHANGED <<lastCheck, sideProbes>>
     ELSE /\ EnterFetch(c, [NoCall EXCEPT !.kind = "snapshot"])
          /\ UNCHANGED runtimeState
  /\ UNCHANGED <<connVars, act, actionsDone, clock, logVars, fn>>

\* a health candidate answers the probe of call c
ProbeCandidate(c, response) ==
  /\ calls[c].pc = "probe"
  /\ LET call == calls[c]
         errors == IF response.error # "" THEN Append(call.errors, response.error)
                   ELSE call.errors
         latestError == nextLatestError(call.latestError, response)
         returned == Wins(response) \/ call.idx = HealthPathCount
         own == call.phase = "own"
         returnedCall ==
           [call EXCEPT !.errors = <<>>, !.latestError = "", !.startedAt = 0,
                        !.won = own /\ Wins(response),
                        !.latencyMs = IF own /\ Wins(response)
                                      THEN clock - call.startedAt ELSE 0]
     IN /\ connectionState' =
             IF Wins(response) THEN probeWonConnection
             ELSE IF call.idx = HealthPathCount THEN probeFailedConnection(latestError)
             ELSE connectionState
        /\ IF ~returned
           THEN /\ calls' = [calls EXCEPT
                               ![c] = [call EXCEPT !.idx = @ + 1,
                                                   !.asked = IF own
                                                             THEN Append(@, healthPaths[call.idx + 1])
                                                             ELSE @,
                                                   !.errors = errors,
                                                   !.latestError = latestError]]
                /\ UNCHANGED <<lastCheck, sideProbes>>
           ELSE IF call.phase = "side"
           THEN /\ calls' = [calls EXCEPT
                               ![c] = [returnedCall EXCEPT !.pc = "snapshot", !.idx = 1]]
                /\ UNCHANGED <<lastCheck, sideProbes>>
           ELSE IF Wins(response)
           THEN EnterFetch(c, returnedCall)
           ELSE /\ calls' = [calls EXCEPT ![c] = [returnedCall EXCEPT !.pc = "done"]]
                /\ UNCHANGED <<lastCheck, sideProbes>>
  /\ UNCHANGED <<configFile, wsClient, sessions, wsReconnectTimer, timers,
                 manualWsDisconnect, staleDispatch, operatorDisconnected>>
  /\ UNCHANGED <<actVars, clock, logVars, fn>>

\* a response to a snapshot request: data is the parsed body, shaped as a frame
NoSnapshotResponse ==
  [ok |-> FALSE,
   data |-> [kind |-> "other", snapshot |-> NoSnapshot, payload |-> NoPayload, text |-> <<>>]]

SnapshotResponse(snapshot) ==
  [ok |-> TRUE, data |-> ObjectFrame(snapshot, [shape |-> "snapshot", entries |-> <<>>])]

\* a snapshot candidate answers call c.  When every candidate failed,
\* fetchRemoteSnapshot returns the cache if the stream is connected and
\* remoteCache.snapshot is set (the same object as runtimeState), else null
\* and getSnapshot stamps the heartbeat; remoteCache.snapshot is not
\* tracked, so cached takes both values when the stream is connected.
\* The record of a finished call keeps its kind and what it wrote.
SnapshotCandidate(c, response, cached) ==
  /\ calls[c].pc = "snapshot"
  /\ LET call == calls[c]
         snapshot == IF response.ok THEN normalizeSnapshot(response.data) ELSE NoSnapshot
         finished == [NoCall EXCEPT !.kind = call.kind, !.pc = "done"]
     IN IF snapshot # NoSnapshot
        THEN /\ connectionState' = fetchSucceededConnection
             /\ runtimeState' = mergeSnapshot(snapshot)
             /\ calls' = [calls EXCEPT ![c] = [finished EXCEPT !.wrote = snapshot]]
        ELSE IF call.idx < SnapshotPathCount
        THEN /\ calls' = [calls EXCEPT ![c] = [call EXCEPT !.idx = @ + 1]]
             /\ UNCHANGED <<connectionState, runtimeState>>
        ELSE /\ calls' = [calls EXCEPT ![c] = finished]
             /\ runtimeState' =
                  IF call.kind = "test" \/ (connectionState.wsConnected /\ cached)
                  THEN runtimeState
                  ELSE getLocalSnapshot(runtimeState)
             /\ UNCHANGED connectionState
  /\ UNCHANGED <<configFile, wsClient, sessions, wsReconnectTimer, timers,
                 manualWsDisconnect, staleDispatch, operatorDisconnected>>
  /\ UNCHANGED <<act, actionsDone, clock, lastCheck, sideProbes, logVars, fn>>

-----------------------------------------------------------------------------
(* The connection orchestrator                                             *)

\* no performBotAction call in flight
NoAction ==
  [pc |-> "idle", action |-> "", remote |-> FALSE, posted |-> <<>>, okAt |-> 0,
   local |-> FALSE, snapshot |-> NoSnapshot,
   result |-> [ok |-> FALSE, message |-> "", snapshot |-> NoSnapshot]]

Init ==
  /\ connectionState = initialConnectionState
  /\ configFile = defaultConfig
  /\ wsClient = NoSession
  /\ sessions = [s \in SessionIds |-> NoSessionRecord]
  /\ wsReconnectTimer = NoTimer
  /\ timers = {}
  /\ manualWsDisconnect = FALSE
  /\ staleDispatch = FALSE
  /\ operatorDisconnected = FALSE
  /\ runtimeState = initialRuntimeState
  /\ act = NoAction
  /\ actionsDone = 0
  /\ clock = 0
  /\ lastCheck = NeverChecked
  /\ calls = [c \in CallIds |-> NoCall]
  /\ sideProbes = <<>>
  /\ remoteLogs = <<>>
  /\ logEvents = 0
  /\ fn = NoApplication

Next ==
  \/ ConnectIpc
  \/ ReconnectTimerFire
  \/ DisconnectWebSocket
  \/ \E s \in SessionIds : SockOpen(s)
  \/ \E s \in SessionIds : OpenAfterLog(s)
  \/ \E s \in SessionIds : \E frame \in StreamFrames : SockMessage(s, frame)
  \/ \E s \in SessionIds : SockError(s)
  \/ \E s \in SessionIds : SockClose(s)
  \/ \E s \in SessionIds : CloseAfterLog(s)
  \/ \E s \in SessionIds : CloseAfterConfig(s)
  \/ \E nextConfig \in SaveInputs : SaveConfig(nextConfig)
  \/ ProbeNotConfigured
  \/ ProbeReachable
  \/ \E latestError \in ProbeErrors : ProbeUnreachable(latestError)
  \/ \E snapshot \in StreamSnapshots : GetSnapshotRemote(snapshot)

\* the log cache stays empty here: the logs requests are part of LogSpec
Spec == Init /\ [][Next]_vars

-----------------------------------------------------------------------------
(* The session manager alone, with the connect timeouts.  The requests and *)
(* the frames left out write connectionState and runtimeState only, and    *)
(* of these the session manager reads wsConnected alone, which they do not *)
(* write.                                                                  *)

LiveNext ==
  \/ ConnectIpc
  \/ ReconnectTimerFire
  \/ DisconnectWebSocket
  \/ \E s \in SessionIds : SockOpen(s)
  \/ \E s \in SessionIds : OpenAfterLog(s)
  \/ \E s \in SessionIds : SockError(s)
  \/ \E s \in SessionIds : SockClose(s)
  \/ \E s \in SessionIds : CloseAfterLog(s)
  \/ \E s \in SessionIds : CloseAfterConfig(s)
  \/ \E s \in SessionIds : ConnectTimeout(s)

\* a timer set with setTimeout fires: the event loop runs every due callback
LiveSpec ==
  /\ Init
  /\ [][LiveNext]_vars
  /\ \A s \in SessionIds : WF_vars(ConnectTimeout(s))

-----------------------------------------------------------------------------
(* Automatic recovery: the session manager with the configuration being    *)
(* saved around it.  The awaits of the close handler return and a timer    *)
(* set with setTimeout fires.                                              *)

RecoverNext ==
  \/ ConnectIpc
  \/ ReconnectTimerFire
  \/ DisconnectWebSocket
  \/ \E s \in SessionIds : SockOpen(s)
  \/ \E s \in SessionIds : OpenAfterLog(s)
  \/ \E s \in SessionIds : SockError(s)
  \/ \E s \in SessionIds : SockClose(s)
  \/ \E s \in SessionIds : CloseAfterLog(s)
  \/ \E s \in SessionIds : CloseAfterConfig(s)
  \/ \E nextConfig \in SaveInputs : SaveConfig(nextConfig)

RecoverSpec ==
  /\ Init
  /\ [][RecoverNext]_vars
  /\ WF_vars(ReconnectTimerFire)
  /\ \A s \in SessionIds : WF_vars(CloseAfterLog(s))
  /\ \A s \in SessionIds : WF_vars(CloseAfterConfig(s))

-----------------------------------------------------------------------------
(* Reconnect delays for every content of the configuration file            *)

\* values pollingIntervalMs can have in a configuration file edited by hand
PollingValues ==
  {JsNum(n) : n \in {-5, 0, 1, 1000, 1999, 2000, 2001, 5000, 29999, 30000, 30001, 120000}}
    \cup {JsNumStr(100), JsNumStr(7000), JsStr, JsEmptyStr, JsNull, JsBool(TRUE),
          JsBool(FALSE), JsInfinity, JsObject}

\* the file was edited while the application runs: readConfig() merges it
\* over defaultConfig without normalizing it
DelayInit ==
  /\ connectionState = initialConnectionState
  /\ configFile \in {[defaultConfig EXCEPT !.pollingIntervalMs = v, !.autoReconnect = a] :
                       v \in PollingValues, a \in BOOLEAN}
  /\ wsClient = NoSession
  /\ sessions = [s \in SessionIds |-> NoSessionRecord]
  /\ wsReconnectTimer = NoTimer
  /\ timers = {}
  /\ manualWsDisconnect = FALSE
  /\ staleDispatch = FALSE
  /\ operatorDisconnected = FALSE
  /\ runtimeState = initialRuntimeState
  /\ act = NoAction
  /\ actionsDone = 0
  /\ clock = 0
  /\ lastCheck = NeverChecked
  /\ calls = [c \in CallIds |-> NoCall]
  /\ sideProbes = <<>>
  /\ remoteLogs = <<>>
  /\ logEvents = 0
  /\ fn = NoApplication

DelayNext ==
  \/ ConnectIpc
  \/ ReconnectTimerFire
  \/ \E s \in SessionIds : SockOpen(s)
  \/ \E s \in SessionIds : OpenAfterLog(s)
  \/ \E s \in SessionIds : SockError(s)
  \/ \E s \in SessionIds : SockClose(s)
  \/ \E s \in SessionIds : CloseAfterLog(s)
  \/ \E s \in SessionIds : CloseAfterConfig(s)

DelaySpec == DelayInit /\ [][DelayNext]_vars

-----------------------------------------------------------------------------
(* The log cache under stream frames and logs responses                    *)

LogNext ==
  \/ ConnectIpc
  \/ \E s \in SessionIds : SockOpen(s)
  \/ \E s \in SessionIds : OpenAfterLog(s)
  \/ \E s \in SessionIds : \E frame \in LogFrames : SockMessage(s, frame)
  \/ \E response \in LogResponses : FetchLogs(response)
  \/ GetLogsRemote

LogSpec == Init /\ [][LogNext]_vars

-----------------------------------------------------------------------------
(* Stream frames of every kind between the probes                          *)

\* the frames of every kind, without the long texts
ShortFrames == StreamFrames \cup {frame \in LogFrames : Len(frame.text) <= 3}

FrameNext ==
  \/ ConnectIpc
  \/ \E s \in SessionIds : SockOpen(s)
  \/ \E s \in SessionIds : OpenAfterLog(s)
  \/ \E s \in SessionIds : \E frame \in ShortFrames : SockMessage(s, frame)
  \/ ProbeReachable
  \/ \E latestError \in ProbeErrors : ProbeUnreachable(latestError)
  \/ \E snapshot \in RemoteSnapshots : GetSnapshotRemote(snapshot)

FrameSpec == Init /\ [][FrameNext]_vars

-----------------------------------------------------------------------------
(* One connection:test at a time (the Test button is disabled while a test *)
(* runs), with the clock, the stream and the configuration changing        *)
(* around it                                                               *)

\* what a health candidate can answer
HealthResponses ==
  { HttpResponse(200), HttpResponse(404), HttpResponse(499), HttpResponse(500),
    TransportError("fetch failed"), TransportError("This operation was aborted") }

\* what a snapshot candidate can answer
SnapshotResponses ==
  {NoSnapshotResponse} \cup {SnapshotResponse(s) : s \in StreamSnapshots}

ProbeNext ==
  \/ TestBegin(1)
  \/ \E response \in HealthResponses : ProbeCandidate(1, response)
  \/ \E response \in SnapshotResponses : \E cached \in BOOLEAN :
       SnapshotCandidate(1, response, cached)
  \/ Tick(ProbeCooldownMs \div 2)
  \/ \E nextConfig \in SaveInputs : SaveConfig(nextConfig)
  \/ ConnectIpc
  \/ \E s \in SessionIds : SockOpen(s)

ProbeSpec == Init /\ [][ProbeNext]_vars

\* the same with a server that answers every health request, and never 404
AnsweredResponses ==
  {response \in HealthResponses : response.error = "" /\ response.status # 404}

AnsweredNext ==
  \/ TestBegin(1)
  \/ \E response \in AnsweredResponses : ProbeCandidate(1, response)
  \/ \E response \in SnapshotResponses : \E cached \in BOOLEAN :
       SnapshotCandidate(1, response, cached)
  \/ Tick(ProbeCooldownMs \div 2)
  \/ \E nextConfig \in SaveInputs : SaveConfig(nextConfig)
  \/ ConnectIpc
  \/ \E s \in SessionIds : SockOpen(s)

AnsweredSpec == Init /\ [][AnsweredNext]_vars

-----------------------------------------------------------------------------
(* Overlapping bot:snapshot calls and stream pushes against a healthy API  *)

\* what a snapshot candidate can answer to a poll
PolledSnapshotResponses ==
  {NoSnapshotResponse} \cup {SnapshotResponse(s) : s \in RemoteSnapshots}

RaceNext ==
  \/ \E c \in CallIds : SnapshotBegin(c)
  \/ \E c \in CallIds : ProbeCandidate(c, HttpResponse(200))
  \/ \E c \in CallIds : \E response \in PolledSnapshotResponses : \E cached \in BOOLEAN :
       SnapshotCandidate(c, response, cached)
  \/ ConnectIpc
  \/ \E s \in SessionIds : SockOpen(s)
  \/ \E s \in SessionIds : \E frame \in StreamFrames : SockMessage(s, frame)

RaceSpec == Init /\ [][RaceNext]_vars

-----------------------------------------------------------------------------
(* Overlapping bot:snapshot calls and a connection:test as the clock       *)
(* advances, against an API whose first health candidate answers           *)

PollHealthResponses == {HttpResponse(200)}

PollNext ==
  \/ \E c \in CallIds : SnapshotBegin(c)
  \/ TestBegin(1)
  \/ \E c \in CallIds : \E response \in PollHealthResponses : ProbeCandidate(c, response)
  \/ \E c \in CallIds : \E response \in SnapshotResponses :
       SnapshotCandidate(c, response, FALSE)
  \/ \E d \in TickSteps : Tick(d)

PollSpec == Init /\ [][PollNext]_vars

-----------------------------------------------------------------------------
(* Action dispatcher: performBotAction                                     *)

\* number of entries of actionPaths
ActionPathCount == 4

\* action names the renderer can send: the five of BotAction, an unknown
\* name and the empty string
ActionNames == {"start", "pause", "resume", "stop", "sync", "restart", ""}

\* the switch of performBotAction: the fields of runtimeState it assigns
localTransitionUncapped(rs, action) ==
  CASE action = "start" ->
         [rs EXCEPT !.status = "running", !.activeWorkers = rs.activeWorkers + 1]
    [] action = "pause" -> [rs EXCEPT !.status = "paused"]
    [] action = "resume" -> [rs EXCEPT !.status = "running"]
    [] action = "stop" -> [rs EXCEPT !.status = "stopped", !.activeWorkers = 0]
    [] action = "sync" ->
         [rs EXCEPT !.queueDepth = rs.queueDepth - 2,
                    !.jobsProcessed = rs.jobsProcessed + 3,
                    !.successRate = rs.successRate + 1]
    [] OTHER -> rs

localTransition(rs, action) ==
  CASE action = "start" ->
         [rs EXCEPT !.status = "running", !.activeWorkers = Min(8, rs.activeWorkers + 1)]
    [] action = "pause" -> [rs EXCEPT !.status = "paused"]
    [] action = "resume" -> [rs EXCEPT !.status = "running"]
    [] action = "stop" -> [rs EXCEPT !.status = "stopped", !.activeWorkers = 0]
    [] action = "sync" ->
         [rs EXCEPT !.queueDepth = Max(0, rs.queueDepth - 2),
                    !.jobsProcessed = rs.jobsProcessed + 3,
                    !.successRate = Min(999, rs.successRate + 1)]
    [] OTHER -> rs

\* the ActionResult of the remote path
remoteResult(action, snapshot) ==
  [ok |-> TRUE, message |-> "Action '" \o action \o "' sent to remote backend",
   snapshot |-> snapshot]

\* the ActionResult of the local path
localResultRejectingUnknown(action, snapshot) ==
  [ok |-> action \in {"start", "pause", "resume", "stop", "sync"},
   message |-> IF action \in {"start", "pause", "resume", "stop", "sync"}
               THEN "Action '" \o action \o "' completed locally (remote endpoint unavailable)"
               ELSE "",
   snapshot |-> snapshot]

localResult(action, snapshot) ==
  [ok |-> TRUE,
   message |-> "Action '" \o action \o "' completed locally (remote endpoint unavailable)",
   snapshot |-> snapshot]

\* tryRemoteAction after a candidate that did not answer with HTTP success:
\* the next candidate, or null (pc "local") when the list is exhausted
afterFailedCandidateGivingUp(a) == [a EXCEPT !.pc = "local"]

afterFailedCandidate(a) ==
  IF Len(a.posted) < ActionPathCount
  THEN [a EXCEPT !.posted = Append(@, Len(@) + 1)]
  ELSE [a EXCEPT !.pc = "local"]

\* performBotAction falls back: the switch runs up to its await appendLog
ApplyLocal(a) ==
  /\ runtimeState' = localTransition(runtimeState, a.action)
  /\ act' = [a EXCEPT !.pc = "localLog", !.local = TRUE]

\* ipc "bot:action" after readConfig: tryRemoteAction posts to the first
\* candidate, or returns null at once when the API endpoint is empty
PerformBotAction(action) ==
  /\ act.pc \in {"idle", "done"}
  /\ actionsDone < MaxActions
  /\ actionsDone' = actionsDone + 1
  /\ LET a == [NoAction EXCEPT !.action = action]
     IN IF apiEndpointOf[configFile.apiEndpoint] = <<>>
        THEN ApplyLocal(a)
        ELSE /\ act' = [a EXCEPT !.pc = "post", !.posted = <<1>>, !.remote = TRUE]
             /\ UNCHANGED runtimeState
  /\ UNCHANGED connVars
  /\ UNCHANGED <<pollVars, logVars, fn>>

\* a candidate answers without HTTP success (or fetchEndpoint reports an error)
ActionCandidateFailed ==
  /\ act.pc = "post"
  /\ LET a == afterFailedCandidate(act)
     IN IF a.pc = "local"
        THEN ApplyLocal(a)
        ELSE /\ act' = a
             /\ UNCHANGED runtimeState
  /\ UNCHANGED <<actionsDone>>
  /\ UNCHANGED connVars
  /\ UNCHANGED <<pollVars, logVars, fn>>

\* a candidate answers with HTTP success and a body normalizeSnapshot accepts
ActionCandidateSnapshot(snapshot) ==
  /\ act.pc = "post"
  /\ act' = [act EXCEPT !.pc = "remoteLog", !.okAt = Len(act.posted),
                        !.snapshot = snapshot]
  /\ UNCHANGED <<runtimeState, actionsDone>>
  /\ UNCHANGED connVars
  /\ UNCHANGED <<pollVars, logVars, fn>>

\* a candidate answers with HTTP success and no usable body: fetchRemoteSnapshot
ActionCandidateNoSnapshot ==
  /\ act.pc = "post"
  /\ act' = [act EXCEPT !.pc = "fetchSnapshot", !.okAt = Len(act.posted)]
  /\ UNCHANGED <<runtimeState, actionsDone>>
  /\ UNCHANGED connVars
  /\ UNCHANGED <<pollVars, logVars, fn>>

\* the follow-up fetchRemoteSnapshot merges a snapshot
ActionFetchedSnapshot(snapshot) ==
  /\ act.pc = "fetchSnapshot"
  /\ connectionState' = fetchSucceededConnection
  /\ runtimeState' = mergeSnapshot(snapshot)
  /\ act' = [act EXCEPT !.pc = "remoteLog", !.snapshot = runtimeState']
  /\ UNCHANGED <<configFile, wsClient, sessions, wsReconnectTimer, timers,
                 manualWsDisconnect, staleDispatch, operatorDisconnected, actionsDone>>
  /\ UNCHANGED <<pollVars, logVars, fn>>

\* the follow-up fetchRemoteSnapshot returns null: getLocalSnapshot()
ActionFetchedNothing ==
  /\ act.pc = "fetchSnapshot"
  /\ runtimeState' = getLocalSnapshot(runtimeState)
  /\ act' = [act EXCEPT !.pc = "remoteLog", !.snapshot = runtimeState']
  /\ UNCHANGED <<actionsDone>>
  /\ UNCHANGED connVars
  /\ UNCHANGED <<pollVars, logVars, fn>>

\* tryRemoteAction after appendLog: the remote result is returned
ActionRemoteLogged ==
  /\ act.pc = "remoteLog"
  /\ act' = [act EXCEPT !.pc = "done", !.result = remoteResult(act.action, act.snapshot)]
  /\ UNCHANGED <<runtimeState, actionsDone>>
  /\ UNCHANGED connVars
  /\ UNCHANGED <<pollVars, logVars, fn>>

\* performBotAction after the switch's appendLog: heartbeat, local result
ActionLocalLogged ==
  /\ act.pc = "localLog"
  /\ runtimeState' = getLocalSnapshot(runtimeState)
  /\ act' = [act EXCEPT !.pc = "done", !.result = localResult(act.action, runtimeState')]
  /\ UNCHANGED <<actionsDone>>
  /\ UNCHANGED connVars
  /\ UNCHANGED <<pollVars, logVars, fn>>

ActionNext ==
  \/ \E action \in ActionNames : PerformBotAction(action)
  \/ ActionCandidateFailed
  \/ \E snapshot \in RemoteSnapshots : ActionCandidateSnapshot(snapshot)
  \/ ActionCandidateNoSnapshot
  \/ \E snapshot \in RemoteSnapshots : ActionFetchedSnapshot(snapshot)
  \/ ActionFetchedNothing
  \/ ActionRemoteLogged
  \/ ActionLocalLogged
  \/ \E snapshot \in RemoteSnapshots : GetSnapshotRemote(snapshot)
  \/ \E nextConfig \in SaveInputs : SaveConfig(nextConfig)
  \/ ProbeNotConfigured
  \/ ProbeReachable
  \/ \E latestError \in ProbeErrors : ProbeUnreachable(latestError)

ActionSpec == Init /\ [][ActionNext]_vars

-----------------------------------------------------------------------------
(* The pure functions, applied to inputs of every shape                    *)

\* a string that is no number, with its text; an array of objects
JsText(s) == [t |-> "text", s |-> s]
JsArray == [t |-> "array", v |-> 0]

\* !value: undefined, null, "", 0, false
Falsy(value) ==
  \/ value.t \in {"undefined", "null", "emptystr"}
  \/ value.t \in {"number", "boolean"} /\ value.v = 0

\* value is null or undefined, what ?? skips
Nullish(value) == value.t \in {"undefined", "null"}

\* a ?? b ?? c
Coalesce(a, b, c) == IF ~Nullish(a) THEN a ELSE IF ~Nullish(b) THEN b ELSE c

\* String(value)
String(value) ==
  CASE value.t = "text" -> value.s
    [] value.t \in {"number", "numstr"} -> ToString(value.v)
    [] value.t = "emptystr" -> ""
    [] value.t = "boolean" -> IF value.v = 1 THEN "true" ELSE "false"
    [] value.t = "infinity" -> "Infinity"
    [] value.t = "null" -> "null"
    [] value.t = "undefined" -> "undefined"
    [] OTHER -> "[object Object]"

\* toLowerCase() on the texts the model enters
toLowerCase(s) ==
  CASE s = "Running" -> "running"
    [] s = "PAUSED" -> "paused"
    [] s = "Busy" -> "busy"
    [] s = "OFF" -> "off"
    [] s = "Unknown" -> "unknown"
    [] OTHER -> s

\* normalizeStatus(value)
normalizeStatusCaseSensitive(value) ==
  LET normalized == IF Falsy(value) THEN "idle" ELSE String(value)
  IN IF normalized \in {"running", "paused", "stopped", "idle"} THEN normalized
     ELSE IF normalized \in {"active", "busy", "processing"} THEN "running"
     ELSE IF normalized \in {"halted", "terminated", "off"} THEN "stopped"
     ELSE "idle"

normalizeStatus(value) ==
  LET normalized == toLowerCase(IF Falsy(value) THEN "idle" ELSE String(value))
  IN IF normalized \in {"running", "paused", "stopped", "idle"} THEN normalized
     ELSE IF normalized \in {"active", "busy", "processing"} THEN "running"
     ELSE IF normalized \in {"halted", "terminated", "off"} THEN "stopped"
     ELSE "idle"

\* the values a status field is given
StatusValues ==
  {JsText(s) : s \in {"running", "paused", "stopped", "idle", "active", "busy",
                      "processing", "halted", "terminated", "off", "Running", "PAUSED",
                      "Busy", "OFF", "Unknown", "starting", "true"}}
    \cup {JsUndefined, JsNull, JsEmptyStr, JsNum(0), JsNum(5), JsBool(TRUE), JsBool(FALSE),
          JsObject, JsArray}

\* the values a numeric field is given; successRate is in tenths of a percent
NumericValues ==
  {JsUndefined, JsNull, JsNum(-5), JsNum(0), JsNum(7), JsNum(100000001), JsNumStr(12),
   JsEmptyStr, JsText("many"), JsBool(TRUE), JsInfinity, JsObject}

\* the object a snapshot is read from: every alias of every field
NoFields ==
  [status |-> JsUndefined, state |-> JsUndefined, mode |-> JsUndefined,
   queueDepth |-> JsUndefined, queue_depth |-> JsUndefined, queue |-> JsUndefined,
   jobsProcessed |-> JsUndefined, jobs_processed |-> JsUndefined, jobs |-> JsUndefined,
   successRate |-> JsUndefined, success_rate |-> JsUndefined, success |-> JsUndefined,
   activeWorkers |-> JsUndefined, active_workers |-> JsUndefined, workers |-> JsUndefined,
   lastHeartbeat |-> JsUndefined, last_heartbeat |-> JsUndefined, heartbeat |-> JsUndefined]

\* an object whose status alias number a holds status and whose numeric
\* aliases number a all hold value
Fields(a, status, value) ==
  CASE a = 1 -> [NoFields EXCEPT !.status = status, !.queueDepth = value,
                                 !.jobsProcessed = value, !.successRate = value,
                                 !.activeWorkers = value, !.lastHeartbeat = JsText("2026")]
    [] a = 2 -> [NoFields EXCEPT !.state = status, !.queue_depth = value,
                                 !.jobs_processed = value, !.success_rate = value,
                                 !.active_workers = value, !.status = JsNull]
    [] OTHER -> [NoFields EXCEPT !.mode = status, !.queue = value, !.jobs = value,
                                 !.success = value, !.workers = value,
                                 !.heartbeat = JsText("2026")]

SourceObjects ==
  {NoFields} \cup
  {Fields(a, status, value) :
     a \in 1..3, status \in {JsText("Busy"), JsText("stopped"), JsUndefined, JsNum(5)},
     value \in NumericValues}

\* a payload: a primitive or an array, or an object with its own fields and
\* its snapshot and data keys
JsObjectOf(fields) == [t |-> "object", fields |-> fields]

ObjectPayload(snapshot, data, fields) ==
  [t |-> "object", snapshot |-> snapshot, data |-> data, fields |-> fields]

\* what the snapshot and data keys hold besides an object
KeyValues == {JsUndefined, JsNull, JsNum(3), JsText("none"), JsArray}

SnapshotPayloads ==
  {JsUndefined, JsNull, JsNum(3), JsText("ok"), JsBool(TRUE), JsArray}
    \cup {ObjectPayload(snapshot, data, fields) :
            snapshot \in KeyValues, data \in KeyValues,
            fields \in {NoFields, Fields(1, JsText("Running"), JsNum(7))}}
    \cup {ObjectPayload(JsUndefined, JsUndefined, fields) : fields \in SourceObjects}
    \cup {ObjectPayload(JsObjectOf(fields), data, NoFields) :
            fields \in SourceObjects, data \in {JsUndefined, JsArray}}
    \cup {ObjectPayload(snapshot, JsObjectOf(fields), NoFields) :
            snapshot \in {JsUndefined, JsNum(3)},
            fields \in {NoFields, Fields(2, JsText("halted"), JsNumStr(12))}}

\* typeof value === "object" && value: an object or an array
IsObjectLike(value) == value.t \in {"object", "array"}

\* normalizeSnapshot(payload) with runtimeState as the cache; lastHeartbeat
\* is "remote" when the payload gives one, "stamped" for new Date()
normalizeSnapshotPayload(payload) ==
  IF ~IsObjectLike(payload) THEN NoSnapshot
  ELSE IF payload.t = "array" THEN NoSnapshot
  ELSE LET source == IF IsObjectLike(payload.snapshot) THEN payload.snapshot
                     ELSE IF IsObjectLike(payload.data) THEN payload.data
                     ELSE JsObjectOf(payload.fields)
       IN IF source.t = "array" THEN NoSnapshot
          ELSE LET f == source.fields
                   status == Coalesce(f.status, f.state, f.mode)
                   heartbeat == Coalesce(f.lastHeartbeat, f.last_heartbeat, f.heartbeat)
               IN [status |-> normalizeStatus(IF Nullish(status)
                                              THEN JsText(runtimeState.status)
                                              ELSE status),
                   queueDepth |->
                     clamp(numberOrFallback(Coalesce(f.queueDepth, f.queue_depth, f.queue),
                                            runtimeState.queueDepth), 0, 10000),
                   jobsProcessed |->
                     clamp(numberOrFallback(Coalesce(f.jobsProcessed, f.jobs_processed, f.jobs),
                                            runtimeState.jobsProcessed), 0, 100000000),
                   successRate |->
                     clamp(numberOrFallback(Coalesce(f.successRate, f.success_rate, f.success),
                                            runtimeState.successRate), 0, 1000),
                   activeWorkers |->
                     clamp(numberOrFallback(Coalesce(f.activeWorkers, f.active_workers, f.workers),
                                            runtimeState.activeWorkers), 0, 1000),
                   lastHeartbeat |-> IF Nullish(heartbeat) THEN "stamped" ELSE "remote"]

\* normalizeStatus(value) is called, once in a behaviour
ApplyNormalizeStatus(value) ==
  /\ fn = NoApplication
  /\ fn' = [op |-> "normalizeStatus", input |-> value, output |-> normalizeStatus(value)]
  /\ UNCHANGED <<connVars, actVars, pollVars, logVars>>

\* normalizeSnapshot(payload) is called, once in a behaviour
ApplyNormalizeSnapshot(payload) ==
  /\ fn = NoApplication
  /\ fn' = [op |-> "normalizeSnapshot", input |-> payload,
            output |-> normalizeSnapshotPayload(payload)]
  /\ UNCHANGED <<connVars, actVars, pollVars, logVars>>

\* sequences of entries: none, one of every kind, 501 strings, and 501
\* strings after a blank one and a number
EntryLists ==
  { <<>>,
    <<ObjectEntry(4, "warn"), PlainLine(5), NumberEntry, BlankLine, StampedLine(6),
      ObjectEntry(7, "")>>,
    PlainText(3000, LogCap + 1),
    <<BlankLine, NumberEntry>> \o PlainText(4000, LogCap + 1) }

\* raw texts, as the lines split() gives
RawTexts ==
  { <<>>, <<BlankLine>>, <<PlainLine(1)>>, <<StampedLine(2), BlankLine, PlainLine(3)>>,
    PlainText(2000, LogCap + 1) }

\* the arguments of extractLogs: a payload of every shape with a raw text
LogInputs ==
  {[payload |-> [shape |-> shape, entries |-> entries], text |-> text] :
     shape \in {"array", "logs", "data"}, entries \in EntryLists,
     text \in {<<>>, <<PlainLine(1)>>}}
    \cup {[payload |-> [shape |-> shape, entries |-> <<entry>>], text |-> text] :
            shape \in {"log", "message"}, entry \in {PlainLine(8), StampedLine(9), BlankLine},
            text \in {<<>>, <<PlainLine(1)>>}}
    \cup {[payload |-> [shape |-> shape, entries |-> <<>>], text |-> text] :
            shape \in {"null", "number", "snapshot"}, text \in RawTexts}

\* extractLogs(payload, text) is called, once in a behaviour
ApplyExtractLogs(input) ==
  /\ fn = NoApplication
  /\ fn' = [op |-> "extractLogs", input |-> input,
            output |-> extractLogs(input.payload, input.text)]
  /\ UNCHANGED <<connVars, actVars, pollVars, logVars>>

\* API endpoints as typed: none, white space, a bare host, URLs with and
\* without trailing slashes, in capitals, with white space around, without a
\* host, with a host new URL() rejects, with a stream scheme
ApiEndpointTexts ==
  { <<>>, <<WhiteSpace>>, <<Host>>, DefaultApiEndpoint,
    <<"https", "://", Host, "/">>,
    <<"HTTP", "://", Host, "/", "api", "/", "/">>,
    <<WhiteSpace, "http", "://", Host, WhiteSpace>>,
    <<"http", "://">>, <<BadHost>>, <<"http", "://", BadHost>>,
    <<"ws", "://", Host>> }

\* stream endpoints as typed: none, white space, with a stream scheme, with
\* an HTTP scheme, without a scheme, with leading slashes, with white space
\* around
WsEndpointTexts ==
  { <<>>, <<WhiteSpace>>,
    <<"ws", "://", Host, "/", "stream">>, <<"wss", "://", Host>>, <<"WS", "://", Host>>,
    <<"http", "://", Host, "/", "stream">>, <<"https", "://", Host>>,
    <<"HTTPS", "://", Host>>,
    <<Host, "/", "stream">>, <<"/", "/", Host>>,
    <<WhiteSpace, "ws", "://", Host, WhiteSpace>>, <<BadHost>> }

\* the configurations toWebSocketEndpoint is applied to
EndpointConfigs ==
  {[defaultConfig EXCEPT !.wsEndpoint = ws, !.apiEndpoint = api] :
     ws \in WsEndpointTexts, api \in ApiEndpointTexts}

\* toWebSocketEndpoint(config) is called, once in a behaviour
ApplyToWebSocketEndpoint(config) ==
  /\ fn = NoApplication
  /\ fn' = [op |-> "toWebSocketEndpoint", input |-> config,
            output |-> toWebSocketEndpoint(config)]
  /\ UNCHANGED <<connVars, actVars, pollVars, logVars>>

\* the state a function is applied in: the cache holds any of the snapshots
\* the model writes to it
PureInit ==
  /\ connectionState = initialConnectionState
  /\ configFile = defaultConfig
  /\ wsClient = NoSession
  /\ sessions = [s \in SessionIds |-> NoSessionRecord]
  /\ wsReconnectTimer = NoTimer
  /\ timers = {}
  /\ manualWsDisconnect = FALSE
  /\ staleDispatch = FALSE
  /\ operatorDisconnected = FALSE
  /\ runtimeState \in {initialRuntimeState} \cup RemoteSnapshots \cup StreamSnapshots
  /\ act = NoAction
  /\ actionsDone = 0
  /\ clock = 0
  /\ lastCheck = NeverChecked
  /\ calls = [c \in CallIds |-> NoCall]
  /\ sideProbes = <<>>
  /\ remoteLogs = <<>>
  /\ logEvents = 0
  /\ fn = NoApplication

PureNext ==
  \/ \E value \in StatusValues : ApplyNormalizeStatus(value)
  \/ \E payload \in SnapshotPayloads : ApplyNormalizeSnapshot(payload)
  \/ \E input \in LogInputs : ApplyExtractLogs(input)
  \/ \E config \in EndpointConfigs : ApplyToWebSocketEndpoint(config)

PureSpec == PureInit /\ [][PureNext]_vars

-----------------------------------------------------------------------------
(* Claims                                                                  *)

\* C1: in every reachable state, apiReachable or wsConnected implies mode = remote
C1_ReachableImpliesRemote ==
  (connectionState.apiReachable \/ connectionState.wsConnected)
    => connectionState.mode = "remote"

\* C1 witness: the API is reachable and the stream has closed after being connected
C1_Witness ==
  /\ connectionState.apiReachable
  /\ ~connectionState.wsConnected
  /\ connectionState.mode = "remote"
  /\ \E s \in SessionIds : sessions[s].st = "closed"

\* C2: in every reachable state, apiReachable and wsConnected both false implies
\* mode = local (violated: the close listener and disconnect() leave mode alone)
C2_UnreachableImpliesLocal ==
  (~connectionState.apiReachable /\ ~connectionState.wsConnected)
    => connectionState.mode = "local"

\* C3: once disconnect() has run and until connect() is invoked again, no
\* reconnect timer is pending, no step leaves one pending, and no session is
\* created by a reconnect attempt
C3_DisconnectWins ==
  /\ [](operatorDisconnected => timers = {})
  /\ [][operatorDisconnected =>
          \A s \in SessionIds :
            (sessions[s].st = "none" /\ sessions'[s].st # "none")
              => ~sessions'[s].isReconnect]_vars

\* C3 witness: disconnect() ran while a close listener was in progress, with
\* auto-reconnect enabled in the file it is about to read
C3_Witness ==
  /\ operatorDisconnected
  /\ configFile.autoReconnect
  /\ \E s \in SessionIds : sessions[s].closePc = "awaitConfig"

\* C4: at most one session is open or connecting, only the current client has
\* listeners, and no listener ever ran for a session other than the current one
C4_OneActiveSession ==
  /\ Cardinality({s \in SessionIds : sessions[s].st \in {"connecting", "open"}}) <= 1
  /\ \A s \in SessionIds : sessions[s].listeners => s = wsClient
  /\ ~staleDispatch

\* C4 witness: a second session is active after the first one was replaced
C4_Witness ==
  /\ wsClient = 2
  /\ sessions[2].st \in {"connecting", "open"}
  /\ sessions[1].st = "closing"

C6_OneReconnectTimer ==
  /\ Cardinality(timers) <= 1
  /\ \A t \in timers : t.id = wsReconnectTimer

\* C6 witness: the close listener of the replaced session 1 scheduled its timer
\* after session 2 had been created, closed and handled
C6_Witness ==
  /\ \E t \in timers : t.id = 1
  /\ sessions[2].st = "closed"
  /\ sessions[2].listeners
  /\ sessions[2].closePc = "idle"

\* C7: every connectWebSocket promise is resolved exactly once, as soon as the
\* open, error or close listener completes or its timeout (2200 ms explicit,
\* 1400 ms reconnect) fires, and eventually in every run
C7_SessionResolved(s) ==
  /\ sessions[s].resolveCalls <= 1
  /\ sessions[s].resolved <=> sessions[s].resolveCalls = 1
  /\ sessions[s].timeoutMs = IF sessions[s].isReconnect THEN 1400 ELSE 2200
  /\ ~sessions[s].resolved => sessions[s].timeoutPending

C7_ResolvingStep(s) ==
  \/ sessions[s].openPc = "awaitLog" /\ sessions'[s].openPc = "idle"
  \/ sessions[s].st # "errored" /\ sessions'[s].st = "errored"
  \/ sessions[s].closePc = "awaitConfig" /\ sessions'[s].closePc = "idle"
  \/ sessions[s].timeoutPending /\ ~sessions'[s].timeoutPending

C7_ResolvesOnce ==
  /\ [](\A s \in Created : C7_SessionResolved(s))
  /\ [][\A s \in SessionIds :
          /\ C7_ResolvingStep(s) => sessions'[s].resolved
          /\ (~sessions[s].resolved /\ sessions'[s].resolved) => C7_ResolvingStep(s)]_vars
  /\ \A s \in SessionIds : (sessions[s].st # "none") ~> sessions[s].resolved

\* C7 witness: the handshake is still unanswered and the timeout resolved the call
C7_Witness ==
  \E s \in SessionIds :
    /\ sessions[s].st = "connecting"
    /\ sessions[s].resolved
    /\ ~sessions[s].timeoutPending

\* C8: the candidates are posted to in order; the local transition is applied
\* only after all four candidates failed or when the API endpoint is empty;
\* once a candidate succeeded no further candidate is posted to and no step
\* of the call other than the follow-up snapshot fetch touches the cache
C8_RemoteFirst ==
  /\ [](/\ Len(act.posted) <= 4
        /\ \A i \in 1..Len(act.posted) : act.posted[i] = i
        /\ act.remote <=> Len(act.posted) > 0
        /\ act.local => (act.okAt = 0 /\ (~act.remote \/ Len(act.posted) = 4))
        /\ act.okAt # 0 => (~act.local /\ Len(act.posted) = act.okAt)
        /\ act.pc = "done" => (act.local <=> act.okAt = 0))
  /\ [][(act' # act /\ act'.okAt # 0 /\ act.pc # "fetchSnapshot")
          => runtimeState' = runtimeState]_vars

\* C8 witness: the call fell back to the local transition after four failed candidates
C8_Witness ==
  /\ act.pc = "done"
  /\ act.local
  /\ Len(act.posted) = 4
  /\ act.action = "stop"
  /\ runtimeState.status = "stopped"

\* C9: the step that applies the local simulation maps the cached snapshot
\* as the table of the five actions says, an unrecognized action changes
\* nothing, and the rest of the local path changes lastHeartbeat only
C9_LocalTransition ==
  [][/\ (act'.pc = "localLog" /\ act.pc # "localLog") =>
          LET rs == runtimeState
              a == act'.action
          IN runtimeState' =
               CASE a = "start" ->
                      [rs EXCEPT !.status = "running",
                                 !.activeWorkers = IF rs.activeWorkers + 1 < 8
                                                   THEN rs.activeWorkers + 1 ELSE 8]
                 [] a = "pause" -> [rs EXCEPT !.status = "paused"]
                 [] a = "resume" -> [rs EXCEPT !.status = "running"]
                 [] a = "stop" -> [rs EXCEPT !.status = "stopped", !.activeWorkers = 0]
                 [] a = "sync" ->
                      [rs EXCEPT !.queueDepth = IF rs.queueDepth - 2 > 0
                                                THEN rs.queueDepth - 2 ELSE 0,
                                 !.jobsProcessed = rs.jobsProcessed + 3,
                                 !.successRate = IF rs.successRate + 1 < 999
                                                 THEN rs.successRate + 1 ELSE 999]
                 [] OTHER -> rs
     /\ (act.pc = "localLog" /\ act'.pc = "done") =>
          /\ \A f \in DOMAIN runtimeState \ {"lastHeartbeat"} :
               runtimeState'[f] = runtimeState[f]
          /\ act'.result.snapshot = runtimeState']_vars

\* C9 witness: start was applied locally to {idle, activeWorkers 3}
C9_Witness ==
  /\ act.pc = "localLog"
  /\ act.action = "start"
  /\ runtimeState.status = "running"
  /\ runtimeState.activeWorkers = 4
  /\ runtimeState.queueDepth = 1

\* C10: every returned ActionResult has ok = true and a non-empty message,
\* whatever the action name and the status, on the remote and the local path
C10_AlwaysOk ==
  act.pc = "done" => (act.result.ok /\ Len(act.result.message) > 0)

\* C10 witness: an unrecognized action returned from the local path while stopped
C10_Witness ==
  /\ act.pc = "done"
  /\ act.local
  /\ act.action = "restart"
  /\ runtimeState.status = "stopped"
  /\ act.result.ok

\* the fields of a Snapshot other than lastHeartbeat
SnapshotFields == {"status", "queueDepth", "jobsProcessed", "successRate", "activeWorkers"}

\* C11: when performBotAction returns through the remote path, the cached
\* Snapshot agrees with ActionResult.snapshot on status, queueDepth,
\* jobsProcessed, successRate and activeWorkers (violated: a snapshot parsed
\* from the action response is returned without being merged into the cache)
C11_RemoteSnapshotAuthoritative ==
  [][(act.pc = "remoteLog" /\ act'.pc = "done") =>
       \A f \in SnapshotFields : runtimeState'[f] = act'.result.snapshot[f]]_vars

\* C12: at every suspension point the cached Snapshot is the complete result
\* of one finished write: the initial cache, a normalized snapshot, or a local
\* transition together with its heartbeat (violated: the switch of
\* performBotAction edits status and counters in place, awaits appendLog, and
\* writes lastHeartbeat only afterwards)
C12_NeverPartiallyUpdated ==
  \/ runtimeState = initialRuntimeState
  \/ runtimeState \in RemoteSnapshots
  \/ runtimeState.lastHeartbeat = "stamped"

\* the lastError a probe that lost every candidate reports: the error of
\* the last candidate that failed in transport, the default text when none did
LastTransportError(errors) ==
  IF errors = <<>> THEN "API endpoint did not respond" ELSE errors[Len(errors)]

\* a response that does not answer the probe: 404, a status of 500 or
\* more, or a transport error (status 0)
FailsProbe(response) ==
  ~response.ok /\ (response.status < 200 \/ response.status >= 500 \/ response.status = 404)

\* C14: whenever the last health candidate of a probe fails after all the
\* others failed, the probe leaves apiReachable false, apiLatencyMs null,
\* a non-empty lastError that is the error of the last candidate that failed
\* in transport (the default text when none did), and mode local unless the
\* stream is connected, whatever the ConnectionState was before
C14_AllCandidatesFail ==
  [][\A response \in HealthResponses :
       ( /\ calls[1].pc = "probe"
         /\ calls[1].idx = 5
         /\ FailsProbe(response)
         /\ ProbeCandidate(1, response) )
       => /\ connectionState'.apiReachable = FALSE
          /\ connectionState'.apiLatencyMs = Null
          /\ connectionState'.lastError \notin {"", Null}
          /\ connectionState'.lastError =
               LastTransportError(IF response.error # ""
                                  THEN Append(calls[1].errors, response.error)
                                  ELSE calls[1].errors)
          /\ connectionState'.mode =
               IF connectionState'.wsConnected THEN "remote" ELSE "local"
          /\ calls'[1].pc = "done"
          /\ ~calls'[1].won]_vars

C14_Witness ==
  /\ calls[1].pc = "done"
  /\ calls[1].kind = "test"
  /\ Len(calls[1].asked) = 5
  /\ ~calls[1].won
  /\ ~connectionState.apiReachable
  /\ connectionState.lastError = "fetch failed"
  /\ connectionState.wsConnected
  /\ connectionState.mode = "remote"

\* C15: the health candidates are requested in the order /health,
\* /api/health, /status, /api/status, /; a candidate that answers ok or with
\* a status in [200,500) other than 404 ends the probe at once with
\* apiReachable true, mode remote, lastError null and a non-negative
\* integer latency, no later candidate being requested; a candidate that
\* answers 404, 500 or more, or fails in transport never wins
C15_FirstWinnerStops ==
  [][\A response \in HealthResponses :
       (calls[1].pc = "probe" /\ ProbeCandidate(1, response))
       => /\ calls[1].asked =
               SubSeq(<<"/health", "/api/health", "/status", "/api/status", "/">>,
                      1, calls[1].idx)
          /\ IF response.ok
                \/ (response.status >= 200 /\ response.status < 500 /\ response.status # 404)
             THEN /\ connectionState'.apiReachable = TRUE
                  /\ connectionState'.mode = "remote"
                  /\ connectionState'.lastError = Null
                  /\ connectionState'.apiLatencyMs = "measured"
                  /\ calls'[1].won
                  /\ calls'[1].latencyMs \in Nat
                  /\ calls'[1].latencyMs = clock - calls[1].startedAt
                  /\ calls'[1].asked = calls[1].asked
                  /\ calls'[1].pc # "probe"
             ELSE /\ ~calls'[1].won
                  /\ calls[1].idx < 5 =>
                       /\ calls'[1].pc = "probe"
                       /\ calls'[1].idx = calls[1].idx + 1
                       /\ connectionState' = connectionState]_vars

C15_Witness ==
  /\ calls[1].won
  /\ calls[1].asked = <<"/health", "/api/health", "/status">>
  /\ calls[1].latencyMs = 7500
  /\ connectionState.apiReachable
  /\ connectionState.mode = "remote"
  /\ connectionState.lastError = Null

\* C16: with an empty or unparseable API endpoint a probe requests nothing
\* and returns at once with apiReachable false, apiLatencyMs null, the
\* lastError "API endpoint is not configured", and mode local unless the
\* stream is connected
C16_NotConfigured ==
  [][(apiEndpointOf[configFile.apiEndpoint] = <<>> /\ TestBegin(1))
       => /\ calls'[1].pc = "done"
          /\ calls'[1].asked = <<>>
          /\ connectionState'.apiReachable = FALSE
          /\ connectionState'.apiLatencyMs = Null
          /\ connectionState'.lastError = "API endpoint is not configured"
          /\ connectionState'.mode =
               IF connectionState'.wsConnected THEN "remote" ELSE "local"]_vars

C16_Witness ==
  /\ calls[1].pc = "done"
  /\ calls[1].kind = "test"
  /\ calls[1].asked = <<>>
  /\ apiEndpointOf[configFile.apiEndpoint] = <<>>
  /\ connectionState.lastError = "API endpoint is not configured"
  /\ ~connectionState.apiReachable
  /\ connectionState.mode = "local"

\* a frame that carries nothing but a snapshot
SnapshotFrame(snapshot) == ObjectFrame(snapshot, [shape |-> "snapshot", entries |-> <<>>])

\* call c completes a snapshot fetch in this step and merges a snapshot
FetchWrites(c) ==
  calls[c].pc = "snapshot" /\ calls'[c].pc = "done" /\ calls'[c].wrote # NoSnapshot

\* C13: the cached Snapshot is last-write-wins.  A snapshot fetch that
\* receives a snapshot and a stream push that carries one leave exactly that
\* snapshot in the cache at the step they complete, whatever other fetches
\* are in flight and whatever was written before; and nothing else changes
\* a status or counter field of the cache, so a write that completed earlier
\* never comes back
C13_LastWriteWins ==
  [][ /\ \A c \in CallIds : FetchWrites(c) => runtimeState' = calls'[c].wrote
      /\ \A x \in SessionIds : \A s \in StreamSnapshots :
           SockMessage(x, SnapshotFrame(s)) => runtimeState' = s
      /\ (\E f \in SnapshotFields : runtimeState'[f] # runtimeState[f])
           => \/ \E c \in CallIds : FetchWrites(c)
              \/ \E x \in SessionIds : \E s \in StreamSnapshots :
                   SockMessage(x, SnapshotFrame(s)) ]_vars

\* two fetches wrote different snapshots, the cache holds the one of the
\* second call, and the stream is open
C13_Witness ==
  /\ calls[1].pc = "done"
  /\ calls[2].pc = "done"
  /\ calls[1].wrote \in RemoteSnapshots
  /\ calls[2].wrote \in RemoteSnapshots
  /\ calls[1].wrote # calls[2].wrote
  /\ runtimeState = calls[2].wrote
  /\ connectionState.wsConnected

\* call c starts a probe from fetchRemoteSnapshot in this step
SideProbeStarts(c) ==
  /\ calls'[c].pc = "probe"
  /\ calls'[c].phase = "side"
  /\ calls[c].pc # "probe" \/ calls[c].phase # "side"

\* C17: a snapshot fetch starts a probe only when no probe has started yet
\* or more than 15000 ms have passed since the last probe of any origin
\* started, and any two probes started by snapshot fetches are at least
\* 15 s apart, whatever calls are in flight
C17_SideProbeCooldown ==
  /\ [](\A i \in 1..Len(sideProbes) : \A j \in 1..Len(sideProbes) :
          i < j => sideProbes[j] - sideProbes[i] >= 15000)
  /\ [][\A c \in CallIds :
          SideProbeStarts(c)
          => /\ lastCheck = NeverChecked \/ clock - lastCheck > 15000
             /\ lastCheck' = clock
             /\ sideProbes' = Append(sideProbes, clock)]_vars

\* a snapshot fetch has started a probe 15001 ms after another one did,
\* while a second snapshot fetch is in flight
C17_Witness ==
  /\ Len(sideProbes) = 2
  /\ sideProbes[2] - sideProbes[1] = 15001
  /\ \E c \in CallIds : calls[c].pc = "probe" /\ calls[c].phase = "side"
  /\ \E c \in CallIds : calls[c].pc = "snapshot" /\ calls[c].kind = "snapshot"

\* the last n elements of a sequence, all of it when it is shorter
LastOf(seq, n) ==
  IF Len(seq) <= n THEN seq ELSE [i \in 1..n |-> seq[Len(seq) - n + i]]

\* the non-blank lines of a text
NonBlank(text) == SelectSeq(text, LAMBDA line : ~line.blank)

\* every line as a formatted line with level REMOTE
AsRemote(lines) ==
  [i \in 1..Len(lines) |-> [body |-> lines[i].body, level |-> "REMOTE", form |-> "formatted"]]

\* a line that starts with a bracketed ISO timestamp unchanged, every other
\* line as a formatted line with level REMOTE
AsRemoteUnlessStamped(lines) ==
  [i \in 1..Len(lines) |->
     IF lines[i].stamped
     THEN [body |-> lines[i].body, level |-> lines[i].level, form |-> "asis"]
     ELSE [body |-> lines[i].body, level |-> "REMOTE", form |-> "formatted"]]

\* C18, as claimed: a frame that is plain text or a JSON string leaves
\* every non-blank line of it at the tail of the log cache as a formatted
\* line with level REMOTE, and the cached Snapshot unchanged
C18_TextLinesAppendedAsRemote ==
  [][\A s \in SessionIds : \A frame \in LogFrames :
       (frame.kind = "text" /\ SockMessage(s, frame))
       => LET lines == AsRemote(NonBlank(frame.text))
          IN /\ Len(remoteLogs') >= Len(lines)
             /\ LastOf(remoteLogs', Len(lines)) = lines
             /\ runtimeState' = runtimeState]_vars

\* C18: a frame that is plain text or a JSON string leaves the last 500 of
\* its non-blank lines at the tail of the log cache, after the lines cached
\* before (the oldest of which give way beyond 500 entries): a line that
\* starts with a bracketed ISO timestamp unchanged, every other line as a
\* formatted line with level REMOTE; the cached Snapshot is unchanged
C18_TextLinesAppended ==
  [][\A s \in SessionIds : \A frame \in LogFrames :
       (frame.kind = "text" /\ SockMessage(s, frame))
       => LET lines == LastOf(AsRemoteUnlessStamped(NonBlank(frame.text)), 500)
          IN /\ remoteLogs' = LastOf(remoteLogs \o lines, 500)
             /\ runtimeState' = runtimeState]_vars

\* the text with a stamped, a blank and a plain line has been delivered
C18_Witness ==
  \E i \in 1..Len(remoteLogs) :
    /\ i = Len(remoteLogs) - 1
    /\ remoteLogs[i] = [body |-> 2, level |-> "INFO", form |-> "asis"]
    /\ remoteLogs[i + 1] = [body |-> 3, level |-> "REMOTE", form |-> "formatted"]

\* C19: the remote log cache never holds more than 500 entries
C19_LogCacheCapped == Len(remoteLogs) <= 500

\* after the text of 499 lines "job finished" arrived twice: the cache is
\* full and the first of the 499 lines has been evicted
C19_Witness ==
  /\ Len(remoteLogs) = 500
  /\ remoteLogs[500] = [body |-> 1, level |-> "REMOTE", form |-> "formatted"]
  /\ remoteLogs[1].body = 1002

\* C20, as claimed: every step leaves the lines cached before at the head of
\* the cache in their order, drops them oldest first, and drops one only
\* when the cache is full afterwards
C20_AppendOnlyFifo ==
  [][\E k \in 0..Len(remoteLogs) :
       /\ k <= Len(remoteLogs')
       /\ SubSeq(remoteLogs', 1, k) = LastOf(remoteLogs, k)
       /\ k < Len(remoteLogs) => Len(remoteLogs') = 500]_vars

\* C21, as claimed: normalizeSnapshot returns null exactly when the payload
\* is not an object (absent, a primitive or an array), whatever the
\* snapshot and data keys of an object hold
C21_NullOnlyForNonObjects ==
  fn.op = "normalizeSnapshot"
    => (fn.output = NoSnapshot <=> fn.input.t # "object")

\* C22: a non-null result of normalizeSnapshot has queueDepth in
\* [0, 10000], jobsProcessed in [0, 100000000], successRate in [0, 100]
\* (0..1000 tenths), activeWorkers in [0, 1000] and one of the four status
\* names, for every payload and every cached Snapshot
C22_FieldsInRange ==
  (fn.op = "normalizeSnapshot" /\ fn.output # NoSnapshot)
    => /\ fn.output.queueDepth \in 0..10000
       /\ fn.output.jobsProcessed \in 0..100000000
       /\ fn.output.successRate \in 0..1000
       /\ fn.output.activeWorkers \in 0..1000
       /\ fn.output.status \in {"idle", "running", "paused", "stopped"}

\* a payload under the data key with 100000001 in every numeric field and
\* no status: the numbers are clamped and the status is the cached one
C22_Witness ==
  /\ fn.op = "normalizeSnapshot"
  /\ fn.input.t = "object"
  /\ fn.output.queueDepth = 10000
  /\ fn.output.jobsProcessed = 100000000
  /\ fn.output.successRate = 1000
  /\ fn.output.activeWorkers = 1000
  /\ fn.output.status = runtimeState.status
  /\ runtimeState.status = "paused"

\* the text of a supplied value, "" when it is no text
TextOf(value) == IF value.t = "text" THEN value.s ELSE ""

\* C25, as claimed: the four canonical names map to themselves,
\* active/busy/processing to running, halted/terminated/off to stopped, and
\* every other value to idle
C25_OthersMapToIdle ==
  fn.op = "normalizeStatus"
    => fn.output =
         CASE TextOf(fn.input) \in {"idle", "running", "paused", "stopped"} -> TextOf(fn.input)
           [] TextOf(fn.input) \in {"active", "busy", "processing"} -> "running"
           [] TextOf(fn.input) \in {"halted", "terminated", "off"} -> "stopped"
           [] OTHER -> "idle"

\* C25: normalizeStatus is total into the four status names; a text is
\* matched whatever its letter case: the canonical names map to themselves
\* in lower case, active/busy/processing to running, halted/terminated/off
\* to stopped; every other value, text or not, maps to idle
C25_StatusIgnoringCase ==
  fn.op = "normalizeStatus"
    => /\ fn.output \in {"idle", "running", "paused", "stopped"}
       /\ fn.output =
            CASE TextOf(fn.input) \in {"running", "Running", "active", "busy", "Busy",
                                       "processing"} -> "running"
              [] TextOf(fn.input) \in {"paused", "PAUSED"} -> "paused"
              [] TextOf(fn.input) \in {"stopped", "halted", "terminated", "off", "OFF"}
                   -> "stopped"
              [] OTHER -> "idle"

\* "Busy" has been mapped to running
C25_Witness ==
  /\ fn.op = "normalizeStatus"
  /\ fn.input = JsText("Busy")
  /\ fn.output = "running"

\* the entries extractLogs reads: those of the payload when it has a list
\* or a single log string, else the lines of the text
EntriesOf(input) ==
  IF input.payload.shape \in {"array", "logs", "data", "log", "message"}
  THEN input.payload.entries
  ELSE input.text

\* an entry that gives a line: a non-blank string or an object
GivesLine(entry) == (entry.t = "string" /\ ~entry.blank) \/ entry.t = "object"

\* the texts of a sequence of entries or lines, in order
Bodies(seq) == [i \in 1..Len(seq) |-> seq[i].body]

\* C23: extractLogs returns at most 500 lines, the most recent ones when
\* there are more; they are the lines of the entries that are non-blank
\* strings or objects, in the order of those entries; blank strings and
\* entries that are neither string nor object give no line
C23_ExtractLogsOrderedAndCapped ==
  fn.op = "extractLogs"
    => /\ Len(fn.output) <= 500
       /\ Bodies(fn.output) = LastOf(Bodies(SelectSeq(EntriesOf(fn.input), GivesLine)), 500)

\* a list of 503 entries, a blank one and a number first: the last 500 of
\* the 501 strings are returned
C23_Witness ==
  /\ fn.op = "extractLogs"
  /\ Len(fn.input.payload.entries) = 503
  /\ Len(fn.output) = 500
  /\ fn.output[1].body = 4002
  /\ fn.output[500].body = 4501

-----------------------------------------------------------------------------
(* logs:get: getCombinedLogs over the local log file, the logs candidates  *)
(* and the log cache the stream fills                                      *)

\* a line of the local log file, as formatLog wrote it
LocalLine(x) == [body |-> x, level |-> "INFO", form |-> "local"]

\* the local log file with n lines
LocalFile(n) == [i \in 1..n |-> LocalLine(i)]

\* readLocalLogs(limit): the last limit lines of the file
readLocalLogs(file, limit) == slice(file, limit)

\* line counts of the local log file
LocalSizes == {3, 41, 121}

\* what fetchRemoteLogs returns when the logs candidates answer with this
\* body (an empty body stands for candidates that fail or have no lines)
fetchRemoteLogs(config, response) ==
  LET parsedLogs == extractLogs(response.data, response.text)
  IN IF apiEndpointOf[config.apiEndpoint] = <<>> THEN <<>>
     ELSE IF Len(parsedLogs) > 0 THEN slice(parsedLogs, 250)
     ELSE slice(remoteLogs, 250)

\* the lines getCombinedLogs returns
getCombinedLogs(localLogs, remote) ==
  IF Len(remote) = 0 THEN localLogs
  ELSE slice(localLogs, 40) \o slice(remote, 210)

\* ipc "logs:get" with a local file of n lines and this answer of the logs
\* candidates.  fn records the call: whether a candidate yielded a line, the
\* log cache when fetchRemoteLogs returned, the local lines read, and the
\* lines returned
GetCombinedLogs(response, n) ==
  LET config == configFile
      configured == apiEndpointOf[config.apiEndpoint] # <<>>
      parsedLogs == extractLogs(response.data, response.text)
      yielded == configured /\ Len(parsedLogs) > 0
      localLogs == readLocalLogs(LocalFile(n), 120)
  IN /\ logEvents < MaxLogEvents
     /\ logEvents' = logEvents + 1
     /\ IF yielded
        THEN /\ remoteLogs' = parsedLogs
             /\ connectionState' = fetchSucceededConnection
        ELSE UNCHANGED <<remoteLogs, connectionState>>
     /\ fn' = [op |-> "getCombinedLogs",
               input |-> [yielded |-> yielded, cache |-> remoteLogs', localLogs |-> localLogs],
               output |-> getCombinedLogs(localLogs, fetchRemoteLogs(config, response))]
     /\ UNCHANGED <<configFile, wsClient, sessions, wsReconnectTimer, timers,
                    manualWsDisconnect, staleDispatch, operatorDisconnected>>
     /\ UNCHANGED <<actVars, pollVars>>

\* configurations saved from the settings form: the default API endpoint, or
\* an API endpoint without a host next to an explicit stream endpoint
LogsConfigInputs ==
  { [apiEndpoint |-> DefaultApiEndpoint, wsEndpoint |-> <<>>, autoReconnect |-> TRUE,
     pollingIntervalMs |-> JsNum(5000)],
    [apiEndpoint |-> <<"http", "://">>, wsEndpoint |-> <<"ws", "://", Host, "/", "stream">>,
     autoReconnect |-> TRUE, pollingIntervalMs |-> JsNum(5000)] }

CombinedNext ==
  \/ \E nextConfig \in LogsConfigInputs : SaveConfig(nextConfig)
  \/ ConnectIpc
  \/ \E s \in SessionIds : SockOpen(s)
  \/ \E s \in SessionIds : OpenAfterLog(s)
  \/ \E s \in SessionIds : \E frame \in LogFrames : SockMessage(s, frame)
  \/ \E response \in LogResponses : \E n \in LocalSizes : GetCombinedLogs(response, n)

CombinedSpec == Init /\ [][CombinedNext]_vars

\* the lines of a sequence that come from the local file
LocalPart(lines) == SelectSeq(lines, LAMBDA l : l.form = "local")

\* the lines of a sequence that come from the server
RemotePart(lines) == SelectSeq(lines, LAMBDA l : l.form # "local")

\* C24: logs:get returns only local lines (the last 120 at most) exactly when
\* no logs candidate yielded a line and the log cache is empty; otherwise it
\* returns at most 40 local lines followed by at most 210 remote lines, never
\* more than 250 lines
C24_LocalOnlyIffNoRemoteLines ==
  fn.op = "getCombinedLogs" =>
    /\ (RemotePart(fn.output) = <<>>) <=> (~fn.input.yielded /\ fn.input.cache = <<>>)
    /\ RemotePart(fn.output) = <<>> =>
         /\ fn.output = fn.input.localLogs
         /\ Len(fn.output) <= 120
    /\ RemotePart(fn.output) # <<>> =>
         /\ fn.output = LocalPart(fn.output) \o RemotePart(fn.output)
         /\ Len(LocalPart(fn.output)) <= 40
         /\ Len(RemotePart(fn.output)) <= 210
         /\ Len(fn.output) <= 250

\* C24, the failing case: logs:get returned local lines only although the
\* log cache held lines
C24_LocalOnlyDespiteCache ==
  /\ fn.op = "getCombinedLogs"
  /\ RemotePart(fn.output) = <<>>
  /\ fn.input.cache # <<>>

\* the pieces a stream endpoint is made of
Pieces ==
  {WhiteSpace, "://", "/", Host, BadHost, "stream", "api", "ws", "wss", "WS", "wsS",
   "http", "https", "HTTP", "HTTPS"}

\* the stream scheme an HTTP scheme converts to
StreamScheme(scheme) == IF lowerScheme(scheme) = "https" THEN "wss" ELSE "ws"

\* C26, as claimed: the stream endpoint of an explicit ws/wss value is that
\* value verbatim, of an explicit http/https value the value with its scheme
\* converted to ws/wss, of any other explicit value "ws://" followed by the
\* value; without an explicit value it is the canonical API endpoint with its
\* scheme converted and /ws appended; it is the empty string exactly when no
\* explicit value is given and the API endpoint is empty or unparseable
C26_StreamEndpointOfSuppliedValue ==
  fn.op = "toWebSocketEndpoint" =>
    LET explicit == fn.input.wsEndpoint
        canonical == normalizeHttpEndpoint(fn.input.apiEndpoint)
    IN /\ fn.output \in Seq(Pieces)
       /\ (explicit # <<>> /\ hasWsScheme(explicit)) => fn.output = explicit
       /\ (explicit # <<>> /\ hasHttpScheme(explicit)) =>
            /\ Len(fn.output) = Len(explicit)
            /\ lowerScheme(fn.output[1]) = StreamScheme(explicit[1])
            /\ Tail(fn.output) = Tail(explicit)
       /\ (explicit # <<>> /\ ~hasWsScheme(explicit) /\ ~hasHttpScheme(explicit)) =>
            fn.output = <<"ws", "://">> \o explicit
       /\ (explicit = <<>> /\ canonical # <<>>) =>
            /\ Len(fn.output) = Len(canonical) + 2
            /\ lowerScheme(fn.output[1]) = StreamScheme(canonical[1])
            /\ Tail(fn.output) = Tail(canonical) \o <<"/", "ws">>
       /\ fn.output = <<>> <=> (explicit = <<>> /\ canonical = <<>>)

\* the text without the white space around it
Trimmed(text) ==
  LET inner == {i \in 1..Len(text) : text[i] # WhiteSpace}
  IN IF inner = {} THEN <<>>
     ELSE SubSeq(text, CHOOSE i \in inner : \A j \in inner : i <= j,
                       CHOOSE i \in inner : \A j \in inner : j <= i)

\* the text without the slashes it starts with
AfterSlashes(text) ==
  LET other == {i \in 1..Len(text) : text[i] # "/"}
  IN IF other = {} THEN <<>>
     ELSE SubSeq(text, CHOOSE i \in other : \A j \in other : i <= j, Len(text))

\* C26: the same with the explicit value taken without the white space around
\* it (a value of white space only is no explicit value), and with the
\* slashes a value without a scheme starts with removed before "ws://" is
\* put in front
C26_StreamEndpointOfTrimmedValue ==
  fn.op = "toWebSocketEndpoint" =>
    LET explicit == Trimmed(fn.input.wsEndpoint)
        canonical == normalizeHttpEndpoint(fn.input.apiEndpoint)
    IN /\ fn.output \in Seq(Pieces)
       /\ (explicit # <<>> /\ hasWsScheme(explicit)) => fn.output = explicit
       /\ (explicit # <<>> /\ hasHttpScheme(explicit)) =>
            /\ Len(fn.output) = Len(explicit)
            /\ lowerScheme(fn.output[1]) = StreamScheme(explicit[1])
            /\ Tail(fn.output) = Tail(explicit)
       /\ (explicit # <<>> /\ ~hasWsScheme(explicit) /\ ~hasHttpScheme(explicit)) =>
            fn.output = <<"ws", "://">> \o AfterSlashes(explicit)
       /\ (explicit = <<>> /\ canonical # <<>>) =>
            /\ Len(fn.output) = Len(canonical) + 2
            /\ lowerScheme(fn.output[1]) = StreamScheme(canonical[1])
            /\ Tail(fn.output) = Tail(canonical) \o <<"/", "ws">>
       /\ fn.output = <<>> <=> (explicit = <<>> /\ canonical = <<>>)

\* the stream endpoint of an explicit value with leading slashes, next to an
\* API endpoint new URL() rejects
C26_Witness ==
  /\ fn.op = "toWebSocketEndpoint"
  /\ fn.input.wsEndpoint = <<"/", "/", Host>>
  /\ fn.input.apiEndpoint = <<"http", "://", BadHost>>
  /\ fn.output = <<"ws", "://", Host>>

\* C27: every connectWebSocket call, from the connect handler or from the
\* reconnect timer, and also one that returns early because the stream
\* endpoint is empty, leaves no reconnect timer pending that was pending
\* before it (violated: the early return at lines 382-386 comes before
\* clearReconnectTimer)
C27_ConnectCancelsTimer ==
  [][(ConnectIpc \/ ReconnectTimerFire) => timers' \cap timers = {}]_vars

\* C27, the failing case: a reconnect timer is pending, named by the handle,
\* while the file holds a configuration without a usable stream endpoint and
\* the last connect() reported so
C27_TimerSurvivesConnect ==
  /\ timers # {}
  /\ \A t \in timers : t.id = wsReconnectTimer
  /\ wsEndpointOf[configFile.wsEndpoint][configFile.apiEndpoint].wsEndpoint = <<>>
  /\ connectionState.lastError = "WebSocket endpoint is not configured"

\* C28: whenever wsConnected is true the current session has opened and has
\* not closed, and a connectWebSocket promise that resolves reports
\* wsConnected = true only if its session is open (violated: a connect() over
\* a connected session removes the listeners of the old session and leaves
\* wsConnected as it was)
C28_ConnectedMeansOpen ==
  /\ [](connectionState.wsConnected =>
          (wsClient # NoSession /\ sessions[wsClient].st = "open"))
  /\ [][\A s \in SessionIds :
          (~sessions[s].resolved /\ sessions'[s].resolved /\ connectionState'.wsConnected)
            => sessions'[s].st = "open"]_vars

\* C28, the failing case: the promise of a replacement session that never
\* opened has resolved on its error while wsConnected is still true
C28_ConnectedButNeverOpened ==
  /\ connectionState.wsConnected
  /\ wsClient = 2
  /\ sessions[2].st = "errored"
  /\ sessions[2].resolved
  /\ sessions[1].st = "closing"

\* C29: a reconnect timer is pending only while no session is connected: the
\* close handler of a session that connect() has replaced schedules no
\* reconnect, and no reconnect attempt closes a session that is open
\* (violated: connect() resets manualWsDisconnect, so the handler of the
\* replaced session schedules its timer once its await returns)
C29_TimerOnlyWhileDisconnected ==
  /\ [](timers # {} =>
          \A s \in SessionIds : sessions[s].st \notin {"open"})
  /\ [][\A s \in SessionIds :
          (sessions[s].closePc = "awaitConfig" /\ sessions'[s].closePc = "idle"
             /\ s # wsClient /\ wsClient # NoSession)
            => timers' = timers]_vars
  /\ [][\A s \in SessionIds :
          (sessions[s].st = "open" /\ sessions[s].listeners /\ sessions'[s].st = "closing")
            => (wsClient' = NoSession \/ ~sessions'[wsClient'].isReconnect)]_vars

\* C29, the failing case: session 2, created by a connect() that replaced
\* session 1, is open with its listeners while the timer scheduled by the
\* close handler of session 1 is pending
C29_TimerPendingOverOpenSession ==
  /\ wsClient = 2
  /\ sessions[2].st = "open"
  /\ sessions[2].listeners
  /\ ~sessions[2].isReconnect
  /\ sessions[1].st = "closed"
  /\ \E t \in timers : t.id = 1 /\ wsReconnectTimer = 1

\* C30: the snapshot of an ActionResult returned from the local path shows the
\* outcome of that action: running after start and resume, paused after
\* pause, stopped with no active workers after stop (violated: the result is
\* read from the cache after the await of appendLog, and a snapshot merged in
\* the meantime has replaced what the switch had assigned)
C30_LocalResultIsOutcome ==
  (act.pc = "done" /\ act.local) =>
    /\ act.action \in {"start", "resume"} => act.result.snapshot.status = "running"
    /\ act.action = "pause" => act.result.snapshot.status = "paused"
    /\ act.action = "stop" =>
         /\ act.result.snapshot.status = "stopped"
         /\ act.result.snapshot.activeWorkers = 0

\* C30, the failing case: a local start returned the paused snapshot that a
\* snapshot fetch merged while the action awaited its log write
C30_StartReturnedPaused ==
  /\ act.pc = "done"
  /\ act.local
  /\ act.action = "start"
  /\ act.result.snapshot.status = "paused"
  /\ act.result.snapshot.queueDepth = 10000

\* session s completes its close transition in this step: its close handler
\* returns from readConfig and decides about the reconnect
CloseTransition(s) ==
  sessions[s].closePc = "awaitConfig" /\ sessions'[s].closePc = "idle"

\* C31: a reconnect timer is scheduled only by the close transition of the
\* current session, and by it exactly when the operator has not requested
\* disconnect and autoReconnect is enabled in the configuration read then; an
\* error event records lastError and neither schedules a reconnect nor
\* changes wsConnected (violated: the close handler of a session that
\* connect() replaced while it was suspended schedules a timer as well)
C31_OnlyCloseSchedules ==
  [][/\ (timers' \ timers # {}) =>
          \E s \in SessionIds : CloseTransition(s) /\ s = wsClient
     /\ \A s \in SessionIds :
          (CloseTransition(s) /\ s = wsClient) =>
            ((timers' \ timers # {}) <=> (~manualWsDisconnect /\ configFile.autoReconnect))
     /\ \A s \in SessionIds :
          (sessions[s].st \in {"connecting", "open"} /\ sessions'[s].st = "errored") =>
            /\ timers' = timers
            /\ connectionState'.wsConnected = connectionState.wsConnected
            /\ connectionState'.lastError = "WebSocket error"]_vars

\* the close event of the current session s has been handled and the operator
\* has not requested disconnect, with autoReconnect enabled
ClosedForRecovery(s) ==
  /\ s = wsClient
  /\ sessions[s].st = "closed"
  /\ sessions[s].closePc # "idle"
  /\ configFile.autoReconnect
  /\ ~manualWsDisconnect

\* what ends the wait for the attempt after the close of session s: a later
\* session was created (by the reconnect timer or by connect()), a
\* connectWebSocket call returned at once for want of a stream endpoint,
\* disconnect() was invoked, autoReconnect was saved as disabled, or the
\* model has no session left to create
RecoveryAttempted(s) ==
  \/ Cardinality(Created) > s
  \/ connectionState.lastError = "WebSocket endpoint is not configured"
  \/ manualWsDisconnect
  \/ ~configFile.autoReconnect
  \/ Cardinality(Created) = MaxSessions

\* C32: after every close of the current session with autoReconnect enabled
\* and no disconnect requested, the close handler leaves a reconnect timer
\* pending, and eventually a new connection attempt is started unless
\* disconnect() or connect() comes first; this holds after a connected session
\* and after a failed attempt alike
C32_RecoveryProgress ==
  /\ [][\A s \in SessionIds :
          (CloseTransition(s) /\ s = wsClient /\ configFile.autoReconnect
             /\ ~manualWsDisconnect)
            => \E t \in timers' : t.id = s /\ wsReconnectTimer' = s]_vars
  /\ \A s \in SessionIds : ClosedForRecovery(s) ~> RecoveryAttempted(s)
  /\ \A s \in SessionIds :
       (\E t \in timers : t.id = s) ~>
         (timers = {} \/ Cardinality(Created) = MaxSessions)

\* C32 witness: session 1 failed without ever opening and closed; the
\* reconnect timer started session 2, with no connect() or disconnect() since
C32_Witness ==
  /\ sessions[1].st = "closed"
  /\ sessions[1].closePc = "idle"
  /\ wsClient = 2
  /\ sessions[2].isReconnect
  /\ sessions[2].st = "connecting"
  /\ timers = {}
  /\ ~connectionState.wsConnected
  /\ connectionState.lastError = "WebSocket error"

\* C33: once connect() has returned with the "endpoint is not configured"
\* error, no session is open with its listeners and no stream message is
\* handled (violated: the early return at lines 382-386 comes before
\* closeWebSocketClient, so the session that was open stays open)
C33_ConnectClosesOpenSession ==
  /\ [](connectionState.lastError = "WebSocket endpoint is not configured" =>
          \A s \in SessionIds : ~(sessions[s].st = "open" /\ sessions[s].listeners))
  /\ [][connectionState.lastError = "WebSocket endpoint is not configured" =>
          ~\E s \in SessionIds : \E frame \in StreamFrames : SockMessage(s, frame)]_vars

\* C33, the failing case: session 1 is still open with its listeners after
\* connect() has reported that no stream endpoint is configured
C33_OpenAfterNotConfigured ==
  /\ wsClient = 1
  /\ sessions[1].st = "open"
  /\ sessions[1].listeners
  /\ ~connectionState.wsConnected
  /\ connectionState.lastError = "WebSocket endpoint is not configured"
  /\ wsEndpointOf[configFile.wsEndpoint][configFile.apiEndpoint].wsEndpoint = <<>>

\* C34: connect() with a configuration whose stream endpoint is empty opens
\* no session and returns with wsConnected = false and the non-empty
\* lastError "WebSocket endpoint is not configured"; that call schedules no
\* reconnect timer
C34_EmptyEndpointOpensNothing ==
  [][(ConnectIpc /\ trim(configFile.wsEndpoint) = <<>>
                 /\ normalizeHttpEndpoint(configFile.apiEndpoint) = <<>>) =>
       /\ sessions' = sessions
       /\ wsClient' = wsClient
       /\ ~connectionState'.wsConnected
       /\ connectionState'.lastError = "WebSocket endpoint is not configured"
       /\ connectionState'.lastError # ""
       /\ timers' \subseteq timers
       /\ wsReconnectTimer' = wsReconnectTimer]_vars

\* C34, its case: connect() has returned for want of a stream endpoint and
\* no session was ever created, no timer is pending
C34_Witness ==
  /\ trim(configFile.wsEndpoint) = <<>>
  /\ normalizeHttpEndpoint(configFile.apiEndpoint) = <<>>
  /\ connectionState.lastError = "WebSocket endpoint is not configured"
  /\ ~connectionState.wsConnected
  /\ Created = {}
  /\ wsClient = NoSession
  /\ timers = {}

C36_NoReconnectOnceDisabled ==
  [][(timers # {} /\ ~configFile.autoReconnect) => ~ReconnectTimerFire]_vars

\* C37: in every reachable state the cached Snapshot has queueDepth in
\* [0, 10000], jobsProcessed in [0, 100000000], successRate in [0, 100]
\* (0..1000 tenths), activeWorkers in [0, 1000] and one of the four status
\* names (violated: the local sync adds 3 to jobsProcessed without a bound)
C37_CachedSnapshotInRange ==
  /\ runtimeState.queueDepth \in 0..10000
  /\ runtimeState.jobsProcessed \in 0..100000000
  /\ runtimeState.successRate \in 0..1000
  /\ runtimeState.activeWorkers \in 0..1000
  /\ runtimeState.status \in {"idle", "running", "paused", "stopped"}

\* C38: a frame that is a JSON object with log content only (no snapshot
\* field) leaves its log lines at the tail of the log cache and the cached
\* Snapshot as it was (violated: normalizeSnapshot builds a snapshot from
\* the cached values with a new lastHeartbeat, and it is merged)
C38_LogOnlyFrameKeepsSnapshot ==
  [][\A s \in SessionIds : \A frame \in LogFrames :
       (frame.kind = "object" /\ frame.snapshot = NoSnapshot /\ SockMessage(s, frame))
       => /\ remoteLogs' = LastOf(remoteLogs \o extractLogs(frame.payload, <<>>), 500)
          /\ runtimeState' = runtimeState]_vars

\* the object normalizeSnapshot reads the fields of
SourceFields(payload) ==
  IF IsObjectLike(payload.snapshot) THEN payload.snapshot.fields
  ELSE IF IsObjectLike(payload.data) THEN payload.data.fields
  ELSE payload.fields

\* the first alias, in the order given, that is there
FirstGiven(a, b, c) ==
  IF ~Nullish(a) THEN a ELSE IF ~Nullish(b) THEN b ELSE IF ~Nullish(c) THEN c ELSE JsUndefined

\* a number, or a string that reads as one
IsNumeric(value) == value.t \in {"number", "numstr"}

\* the field as claimed: the incoming number, or else the cached value, clamped
Resolved(value, cached, max) ==
  clamp(IF IsNumeric(value) THEN value.v ELSE cached, 0, max)

\* C39: normalizeSnapshot takes each numeric field from the first of its
\* aliases (camel-case, snake-case, short name) that is there; when that
\* value is absent or no number the result has the cached value of the
\* field, clamped; an absent status leaves the cached status (violated:
\* Number() reads "", null and booleans as 0 or 1, which replace the
\* cached value)
C39_AliasesThenCachedValue ==
  (fn.op = "normalizeSnapshot" /\ fn.output # NoSnapshot)
    => LET f == SourceFields(fn.input)
       IN /\ fn.output.queueDepth =
               Resolved(FirstGiven(f.queueDepth, f.queue_depth, f.queue),
                        runtimeState.queueDepth, 10000)
          /\ fn.output.jobsProcessed =
               Resolved(FirstGiven(f.jobsProcessed, f.jobs_processed, f.jobs),
                        runtimeState.jobsProcessed, 100000000)
          /\ fn.output.successRate =
               Resolved(FirstGiven(f.successRate, f.success_rate, f.success),
                        runtimeState.successRate, 1000)
          /\ fn.output.activeWorkers =
               Resolved(FirstGiven(f.activeWorkers, f.active_workers, f.workers),
                        runtimeState.activeWorkers, 1000)
          /\ Nullish(FirstGiven(f.status, f.state, f.mode))
               => fn.output.status = runtimeState.status

\* C40, as claimed: every health candidate that answers with a status
\* other than 404, HTTP 500 included, makes the probe report
\* apiReachable = true
C40_AnyNon404Succeeds ==
  [][\A response \in AnsweredResponses :
       (calls[1].pc = "probe" /\ ProbeCandidate(1, response))
       => connectionState'.apiReachable = TRUE]_vars

\* C40: a health candidate that answers with a status in [200, 500) other
\* than 404 makes the probe report apiReachable = true; one that answers
\* HTTP 500 does not: the probe goes on to the next candidate with the
\* ConnectionState as it was, and after the last candidate it reports
\* apiReachable = false with the default error text
C40_ServerErrorIsNoSuccess ==
  [][\A response \in AnsweredResponses :
       (calls[1].pc = "probe" /\ ProbeCandidate(1, response))
       => IF response.status < 500
          THEN connectionState'.apiReachable = TRUE /\ calls'[1].won
          ELSE /\ ~calls'[1].won
               /\ calls[1].idx < 5 => connectionState' = connectionState
               /\ calls[1].idx = 5 =>
                    /\ connectionState'.apiReachable = FALSE
                    /\ connectionState'.lastError = "API endpoint did not respond"]_vars

\* C40, its case: all five health candidates answered HTTP 500 and the
\* probe reported the API unreachable
C40_Witness ==
  /\ calls[1].pc = "done"
  /\ calls[1].kind = "test"
  /\ Len(calls[1].asked) = 5
  /\ ~calls[1].won
  /\ ~connectionState.apiReachable
  /\ connectionState.lastError = "API endpoint did not respond"

====
